---- MODULE Spec2Model ----
(***************************************************************************)
(* A model of the podcast RSS generator (src/rss_generator.py): the config *)
(* validator, the asset metadata resolver with its two retry loops, the    *)
(* GUID strategy, the channel section and the episode loop of             *)
(* generate_rss, format_description with the serialization of its result, *)
(* and the main entry point; and of get_file_info, the item and            *)
(* format_description of the package                                       *)
(* (src/podcast_rss_generator/generator.py), which has one retry loop.     *)
(*                                                                         *)
(* Python values are abstracted to the classes the code distinguishes:     *)
(*   "absent"  the key is not in the mapping                               *)
(*   "None"    null                                                        *)
(*   "ok"      a non-empty string, well formed for its field (an address   *)
(*             matching the email pattern, a URL with scheme and host, an  *)
(*             ISO date-time, plain text)                                  *)
(*   "bad"     a non-empty string that is malformed for its field          *)
(*   "empty"   the string ""          "blank"   the string "  "            *)
(*   "yes" "no" "full" "trailer" "bonus"   these literal strings           *)
(*   "int"     the integer 5          "zero"    the integer 0              *)
(*   "true" "false"   booleans        "list"    a non-empty list           *)
(*   "date"    a parsed date object (an unquoted YAML date)                *)
(* Texts that reach the output (URLs, header values, GUIDs) are sequences  *)
(* of one-character strings; descriptions, which are measured against a    *)
(* limit of 4000 bytes, are sequences of runs of a character.              *)
(***************************************************************************)
EXTENDS Integers, Sequences, FiniteSets, TLC

\* ------------------------------------------------------------------ bounds
MaxEpisodes == 2
MaxEdits == 2
\* how far below and above the byte limit the long descriptions are
MaxOver == 3

\* ------------------------------------------------------- Python predicates
\* str(uuid.uuid5(uuid.NAMESPACE_URL, name)) of a string: a text made of the
\* name and of nothing else, which differs from the name and from the text of
\* every other name
Uuid5(name) == "uuid5(" \o name \o ")"

StrLiterals ==
    {"yes", "no", "full", "trailer", "bonus"} \cup {Uuid5(name) : name \in {"ok", "bad"}}

\* isinstance(v, str)
IsStr(v) == v \in {"ok", "bad", "empty", "blank"} \cup StrLiterals

\* isinstance(v, bool)
IsBool(v) == v \in {"true", "false"}

\* isinstance(v, int): Python's bool is a subclass of int
IsInt(v) == v \in {"int", "zero", "true", "false"}

\* bool(v), for a value that is present
Truthy(v) == v \notin {"absent", "None", "empty", "zero", "false"}

\* v.strip() is non-empty, for a string v
StripTruthy(v) == v \in {"ok", "bad"} \cup StrLiterals

\* the integer value of an int-like v (True is 1, False is 0)
IntValue(v) == CASE v = "int" -> 5 [] v = "true" -> 1 [] OTHER -> 0

\* is_valid_url: urlparse gives a scheme and a netloc; any exception is False
is_valid_url(v) == v = "ok"

\* is_valid_email: re.match raises TypeError on a value that is not a string
is_valid_email_raises(v) == ~IsStr(v)
is_valid_email(v) == v = "ok"

\* is_valid_iso_date: only ValueError is caught; on a value that is not a
\* string, .replace("Z", "+00:00") raises AttributeError or TypeError
is_valid_iso_date_raises(v) == ~IsStr(v)
is_valid_iso_date(v) == v = "ok"

\* dict.get(key): None for a missing key
Get(d, k) == IF d[k] = "absent" THEN "None" ELSE d[k]

\* a or b
PyOr(a, b) == IF Truthy(a) THEN a ELSE b

\* ------------------------------------------------------------- sequences
RECURSIVE Flatten(_)
Flatten(ss) == IF ss = <<>> THEN <<>> ELSE Head(ss) \o Flatten(Tail(ss))

Range(s) == {s[i] : i \in DOMAIN s}

If(c, e) == IF c THEN <<e>> ELSE <<>>

\* ------------------------------------------------------ validate_config
\* One error message: its text (without the interpolated values), the
\* 1-based episode and transcript numbers it names (0: none) and the field.
Err(msg, ep, tr, field) == [msg |-> msg, ep |-> ep, tr |-> tr, field |-> field]

required_metadata_fields == <<"title", "description", "link", "rss_feed_url", "language">>
url_fields == <<"link", "rss_feed_url", "image">>
boolean_fields == <<"explicit", "itunes_explicit", "use_asset_hash_as_guid">>
required_episode_fields == <<"title", "description", "publication_date", "asset_url">>
valid_episode_types == {"full", "trailer", "bonus"}
episode_url_fields == <<"link", "image">>
episode_boolean_fields == <<"explicit", "itunes_explicit">>

\* a validator that reads the email under the modern key only
email_field_modern_only(md) == Get(md, "email")

\* the email (modern or legacy key) the validator looks at
email_field(md) == PyOr(Get(md, "email"), Get(md, "itunes_email"))
author_field(md) == PyOr(Get(md, "author"), Get(md, "itunes_author"))
category_field(md) == PyOr(Get(md, "category"), Get(md, "itunes_category"))

\* the checks of the metadata section, in the order of the code
MetadataErrors(md) ==
    Flatten([i \in 1..Len(required_metadata_fields) |->
        LET field == required_metadata_fields[i] IN
        IF md[field] = "absent"
        THEN <<Err("Missing required metadata field", 0, 0, field)>>
        ELSE If(~IsStr(md[field]) \/ ~StripTruthy(md[field]),
                Err("Metadata field must be a non-empty string", 0, 0, field))])
    \o (IF ~Truthy(email_field(md))
        THEN <<Err("Missing required metadata field", 0, 0, "email")>>
        ELSE If(~is_valid_email(email_field(md)), Err("Invalid email format", 0, 0, "email")))
    \o (IF ~Truthy(author_field(md))
        THEN <<Err("Missing required metadata field", 0, 0, "author")>>
        ELSE If(~IsStr(author_field(md)) \/ ~StripTruthy(author_field(md)),
                Err("Author field must be a non-empty string", 0, 0, "author")))
    \o If(Truthy(category_field(md))
          /\ (~IsStr(category_field(md)) \/ ~StripTruthy(category_field(md))),
          Err("Category field must be a non-empty string", 0, 0, "category"))
    \o Flatten([i \in 1..Len(url_fields) |->
        LET field == url_fields[i] IN
        If(md[field] # "absent" /\ Truthy(md[field]) /\ ~is_valid_url(md[field]),
           Err("Invalid URL format in metadata field", 0, 0, field))])
    \o Flatten([i \in 1..Len(boolean_fields) |->
        LET field == boolean_fields[i] IN
        If(md[field] # "absent" /\ ~IsBool(md[field]),
           Err("Metadata field must be a boolean", 0, 0, field))])
    \o If(md["podcast_locked"] # "absent"
          /\ md["podcast_locked"] \notin {"yes", "no", "true", "false", "zero"},  \* 0 == False
          Err("Metadata field 'podcast_locked' must be 'yes', 'no', true, or false", 0, 0,
              "podcast_locked"))

\* the metadata checks raise: is_valid_email on a truthy value that is no string
MetadataRaises(md) ==
    Truthy(email_field(md)) /\ is_valid_email_raises(email_field(md))

\* the checks of one transcript entry (j: its 1-based number)
TranscriptErrors(i, j, tr) ==
    IF tr.kind # "dict"
    THEN <<Err("Transcript must be a dictionary", i, j, "")>>
    ELSE (IF tr.url = "absent"
          THEN <<Err("Transcript missing required field", i, j, "url")>>
          ELSE If(~is_valid_url(tr.url), Err("Transcript has invalid URL format", i, j, "url")))
      \o (IF tr.type = "absent"
          THEN <<Err("Transcript missing required field", i, j, "type")>>
          ELSE If(~IsStr(tr.type) \/ ~StripTruthy(tr.type),
                  Err("Transcript field 'type' must be a non-empty string", i, j, "type")))

\* the checks of one episode (i: its 1-based number)
EpisodeErrors(i, episode) ==
    IF episode.kind # "dict"
    THEN <<Err("Episode must be a dictionary", i, 0, "")>>
    ELSE LET e == episode.f IN
      Flatten([k \in 1..Len(required_episode_fields) |->
        LET field == required_episode_fields[k] IN
        IF e[field] = "absent"
        THEN <<Err("Missing required field", i, 0, field)>>
        ELSE If(~IsStr(e[field]) \/ ~StripTruthy(e[field]),
                Err("Field must be a non-empty string", i, 0, field))])
      \o If(e["publication_date"] # "absent" /\ ~is_valid_iso_date(e["publication_date"]),
            Err("Invalid publication_date format", i, 0, "publication_date"))
      \o If(e["asset_url"] # "absent" /\ ~is_valid_url(e["asset_url"]),
            Err("Invalid asset_url format", i, 0, "asset_url"))
      \o Flatten([k \in 1..Len(episode_url_fields) |->
        LET field == episode_url_fields[k] IN
        If(e[field] # "absent" /\ Truthy(e[field]) /\ ~is_valid_url(e[field]),
           Err("Invalid URL format in field", i, 0, field))])
      \o If(e["episode"] # "absent" /\ (~IsInt(e["episode"]) \/ IntValue(e["episode"]) < 1),
            Err("Field must be a positive integer", i, 0, "episode"))
      \o If(e["season"] # "absent" /\ (~IsInt(e["season"]) \/ IntValue(e["season"]) < 1),
            Err("Field must be a positive integer", i, 0, "season"))
      \o If(e["episode_type"] # "absent" /\ e["episode_type"] \notin valid_episode_types,
            Err("Invalid episode_type", i, 0, "episode_type"))
      \o Flatten([k \in 1..Len(episode_boolean_fields) |->
        LET field == episode_boolean_fields[k] IN
        If(e[field] # "absent" /\ ~IsBool(e[field]),
           Err("Field must be a boolean", i, 0, field))])
      \o (IF e["transcripts"] = "absent" THEN <<>>
          ELSE IF e["transcripts"] # "list"
          THEN <<Err("Field 'transcripts' must be a list", i, 0, "transcripts")>>
          ELSE Flatten([j \in 1..Len(episode.transcripts) |->
                  TranscriptErrors(i, j, episode.transcripts[j])]))

\* the checks of an episode raise: is_valid_iso_date on a value that is no string
EpisodeRaises(episode) ==
    /\ episode.kind = "dict"
    /\ episode.f["publication_date"] # "absent"
    /\ is_valid_iso_date_raises(episode.f["publication_date"])

\* the checks of the episodes section once it is known to be a list
EpisodesErrors(episodes) ==
    If(Len(episodes) = 0, Err("At least one episode is required", 0, 0, "episodes"))
    \o Flatten([i \in 1..Len(episodes) |-> EpisodeErrors(i, episodes[i])])

Returned(errors) == [raised |-> FALSE, ok |-> Len(errors) = 0, errors |-> errors]
Raised == [raised |-> TRUE, ok |-> FALSE, errors |-> <<>>]

\* validate_config(config): what it returns, or that it raised
validate_config(c) ==
    IF c.top # "dict"
    THEN Returned(<<Err("Config must be a dictionary", 0, 0, "")>>)
    ELSE IF c.metadata_kind = "absent"
    THEN Returned(<<Err("Missing required 'metadata' section", 0, 0, "metadata")>>)
    ELSE IF c.episodes_kind = "absent"
    THEN Returned(<<Err("Missing required 'episodes' section", 0, 0, "episodes")>>)
    ELSE IF c.metadata_kind # "dict"
    THEN Raised   \* "field not in metadata" or metadata.get on a non-mapping
    ELSE IF MetadataRaises(c.metadata)
    THEN Raised
    ELSE IF c.episodes_kind # "list"
    THEN Returned(MetadataErrors(c.metadata)
                  \o <<Err("Episodes section must be a list", 0, 0, "episodes")>>)
    ELSE IF \E i \in 1..Len(c.episodes) : EpisodeRaises(c.episodes[i])
    THEN Raised
    ELSE Returned(MetadataErrors(c.metadata) \o EpisodesErrors(c.episodes))

\* ------------------------------------------------------------- the config
\* A config as yaml.safe_load returns it: top is the class of the whole value,
\* metadata_kind and episodes_kind those of the two sections ("dict" and "list"
\* when well formed), metadata the fields of the metadata mapping, episodes the
\* episodes list.  An episode: kind, its fields f, its transcripts list (read
\* when f.transcripts = "list") and when, the timestamp publication_date
\* parses to: a wall-clock reading, and the UTC offset it carries if it is aware.
BaseMetadata ==
    [title |-> "ok", description |-> "ok", link |-> "ok", rss_feed_url |-> "ok",
     language |-> "ok", email |-> "ok", itunes_email |-> "absent", author |-> "ok",
     itunes_author |-> "absent", category |-> "absent", itunes_category |-> "absent",
     image |-> "absent", explicit |-> "absent", itunes_explicit |-> "absent",
     use_asset_hash_as_guid |-> "absent", podcast_locked |-> "absent",
     copyright |-> "absent", podcast_guid |-> "absent"]

BaseEpisode ==
    [kind |-> "dict",
     f |-> [title |-> "ok", description |-> "ok", publication_date |-> "ok",
            asset_url |-> "ok", link |-> "absent", image |-> "absent",
            episode |-> "absent", season |-> "absent", episode_type |-> "absent",
            explicit |-> "absent", itunes_explicit |-> "absent",
            transcripts |-> "absent"],
     transcripts |-> <<>>,
     when |-> [local |-> 0, aware |-> FALSE, offset |-> 0]]

BaseConfig(n) ==
    [top |-> "dict", metadata_kind |-> "dict", metadata |-> BaseMetadata,
     episodes_kind |-> "list", episodes |-> [i \in 1..n |-> BaseEpisode]]

Transcript(kind, url, type) ==
    [kind |-> kind, url |-> url, type |-> type, language |-> "absent", rel |-> "absent"]

\* One change to a config: sec names what is changed, ep the episode (0: none);
\* id is its number in the list of edits (0 until it is numbered).
Edit(sec, ep, field, value, trs) ==
    [id |-> 0, sec |-> sec, ep |-> ep, field |-> field, value |-> value, trs |-> trs]

\* the edits that give one place each of the values, in order
Pairs(sec, ep, field, values) ==
    [k \in 1..Len(values) |-> Edit(sec, ep, field, values[k], <<>>)]

TopEdits ==
    Pairs("top", 0, "", <<"list">>)
    \o Pairs("metadata_kind", 0, "", <<"absent", "None", "list">>)
    \o Pairs("episodes_kind", 0, "", <<"absent", "bad">>)

MetadataEdits ==
    Pairs("metadata", 0, "title", <<"absent", "blank", "int">>)
    \o Pairs("metadata", 0, "description", <<"empty">>)
    \o Pairs("metadata", 0, "language", <<"absent">>)
    \o Pairs("metadata", 0, "link", <<"absent", "bad">>)
    \o Pairs("metadata", 0, "rss_feed_url", <<"bad">>)
    \o Pairs("metadata", 0, "email", <<"absent", "bad", "empty", "int">>)
    \o Pairs("metadata", 0, "itunes_email", <<"ok", "bad">>)
    \o Pairs("metadata", 0, "author", <<"absent", "blank">>)
    \o Pairs("metadata", 0, "itunes_author", <<"ok">>)
    \o Pairs("metadata", 0, "category", <<"ok", "empty", "blank">>)
    \o Pairs("metadata", 0, "itunes_category", <<"ok", "blank">>)
    \o Pairs("metadata", 0, "image", <<"ok", "bad">>)
    \o Pairs("metadata", 0, "explicit", <<"true", "bad">>)
    \o Pairs("metadata", 0, "itunes_explicit", <<"true">>)
    \o Pairs("metadata", 0, "use_asset_hash_as_guid", <<"true", "bad">>)
    \o Pairs("metadata", 0, "podcast_locked", <<"yes", "bad">>)

TranscriptLists ==
    <<<<Transcript("dict", "ok", "ok")>>,
      <<Transcript("dict", "absent", "ok")>>,
      <<Transcript("dict", "ok", "ok"), Transcript("dict", "bad", "blank")>>,
      <<Transcript("bad", "absent", "absent")>>>>

EpisodeEdits(i) ==
    Pairs("episode_kind", i, "", <<"bad">>)
    \o Pairs("episode", i, "title", <<"absent", "int">>)
    \o Pairs("episode", i, "publication_date", <<"absent", "bad", "date">>)
    \o Pairs("episode", i, "asset_url", <<"absent", "bad">>)
    \o Pairs("episode", i, "image", <<"ok", "bad">>)
    \o Pairs("episode", i, "episode", <<"int", "zero">>)
    \o Pairs("episode", i, "season", <<"bad">>)
    \o Pairs("episode", i, "episode_type", <<"full", "bad">>)
    \o Pairs("episode", i, "explicit", <<"false", "bad">>)
    \o Pairs("episode", i, "transcripts", <<"bad">>)
    \o [k \in 1..Len(TranscriptLists) |->
          Edit("episode", i, "transcripts", "list", TranscriptLists[k])]

\* every edit, those of the metadata first
AllEdits ==
    TopEdits \o MetadataEdits \o Flatten([i \in 1..MaxEpisodes |-> EpisodeEdits(i)])

ApplyEdit(c, e) ==
    CASE e.sec = "none" -> c
      [] e.sec = "top" -> [c EXCEPT !.top = e.value]
      [] e.sec = "metadata_kind" -> [c EXCEPT !.metadata_kind = e.value]
      [] e.sec = "episodes_kind" -> [c EXCEPT !.episodes_kind = e.value]
      [] e.sec = "metadata" -> [c EXCEPT !.metadata[e.field] = e.value]
      [] e.sec = "episode_kind" -> [c EXCEPT !.episodes[e.ep].kind = e.value]
      [] e.sec = "episode" ->
            [c EXCEPT !.episodes[e.ep].f[e.field] = e.value,
                      !.episodes[e.ep].transcripts = e.trs]

\* no change
NoEdit == Edit("none", 0, "", "", <<>>)

\* the edits, numbered from 1, and no change
NumberedEdits ==
    {NoEdit} \cup {[AllEdits[k] EXCEPT !.id = k] : k \in DOMAIN AllEdits}

\* the place an edit changes
Place(e) == <<e.sec, e.ep, e.field>>

\* A choice of at most MaxEdits edits: the changes come last and in ascending
\* order, no two change one place, and each is of one of the n episodes.
IsChoice(picks, n) ==
    /\ \A k \in 1..(MaxEdits - 1) :
          picks[k] # NoEdit =>
             /\ picks[k].id < picks[k + 1].id
             /\ Place(picks[k]) # Place(picks[k + 1])
    /\ \A k \in 1..MaxEdits : picks[k].ep <= n

\* c with the picked edits applied, from the k-th on
RECURSIVE ApplyEdits(_, _, _)
ApplyEdits(c, picks, k) ==
    IF k > MaxEdits THEN c
    ELSE ApplyEdits(ApplyEdit(c, picks[k]), picks, k + 1)

\* ------------------------------------------------------ get_file_info
\* An optional Python value: None, or a value v.
None == [present |-> FALSE, v |-> <<>>]
Some(v) == [present |-> TRUE, v |-> v]
\* None where a number may stand
NoNumber == [present |-> FALSE, v |-> 0]

\* bool(h) of an optional string: None and "" are falsy
OptTruthy(h) == h.present /\ h.v # <<>>

Sha256Prefix == <<"s", "h", "a", "2", "5", "6", ":">>
Md5Prefix == <<"m", "d", "5", ":">>
EtagPrefix == <<"e", "t", "a", "g", ":">>
Md5Key == <<"m", "d", "5", "=">>

\* s.strip('" '): the quotes and spaces at both ends removed
RECURSIVE LStrip(_)
LStrip(s) == IF s # <<>> /\ Head(s) \in {"\"", " "} THEN LStrip(Tail(s)) ELSE s
RECURSIVE RStrip(_)
RStrip(s) ==
    IF s # <<>> /\ s[Len(s)] \in {"\"", " "} THEN RStrip(SubSeq(s, 1, Len(s) - 1)) ELSE s
Strip(s) == RStrip(LStrip(s))

\* the longest prefix of s without a comma: what ([^,]+) captures
RECURSIVE UntilComma(_)
UntilComma(s) ==
    IF s = <<>> \/ Head(s) = "," THEN <<>> ELSE <<Head(s)>> \o UntilComma(Tail(s))

\* re.search(r"md5=([^,]+)", s): the places where the pattern matches
Md5Matches(s) ==
    {i \in 1..Len(s) : /\ i + Len(Md5Key) <= Len(s)
                       /\ SubSeq(s, i, i + Len(Md5Key) - 1) = Md5Key
                       /\ s[i + Len(Md5Key)] # ","}

\* match.group(1) of the leftmost match
Md5Token(s) ==
    LET i == CHOOSE m \in Md5Matches(s) : \A k \in Md5Matches(s) : m <= k
    IN UntilComma(SubSeq(s, i + Len(Md5Key), Len(s)))

\* the content hash extracted from the response headers (lines 115-139)
content_hash(headers) ==
    IF OptTruthy(headers.sha256)
    THEN Some(Sha256Prefix \o headers.sha256.v)
    ELSE IF OptTruthy(headers.goog) /\ Md5Matches(headers.goog.v) # {}
    THEN Some(Md5Prefix \o Md5Token(headers.goog.v))
    ELSE LET etag == Strip(IF headers.etag.present THEN headers.etag.v ELSE <<>>) IN
         IF etag # <<>> THEN Some(EtagPrefix \o etag) ELSE None

\* int(float(text)) of a duration given in milliseconds
ToWholeSeconds(ms) == ms \div 1000

\* the duration read from the ffprobe report: the line of stream 0
duration_of(probe) ==
    IF probe.s0.present THEN Some(ToWholeSeconds(probe.s0.v)) ELSE NoNumber

\* what get_file_info returns once both loops have ended: has_hash is whether
\* the dict has a "content_hash" key
get_file_info(response, probe) ==
    IF probe.empty
    THEN [content_length |-> response.headers.content_length,
          content_type |-> response.headers.content_type,
          duration |-> NoNumber, has_hash |-> FALSE, content_hash |-> None]
    ELSE [content_length |-> response.headers.content_length,
          content_type |-> response.headers.content_type,
          duration |-> duration_of(probe), has_hash |-> TRUE,
          content_hash |-> content_hash(response.headers)]

\* "application/octet-stream"
OctetStream == <<"o", "c", "t", "e", "t">>

\* a placeholder that carries a content hash
PlaceholderFileInfo_hashed ==
    [content_length |-> Some(<<"0">>),
     content_type |-> Some(OctetStream),
     duration |-> NoNumber, has_hash |-> TRUE, content_hash |-> Some(<<"h">>)]

\* lines 552-560: the placeholder used when asset verification is skipped
PlaceholderFileInfo ==
    [content_length |-> Some(<<"0">>),
     content_type |-> Some(OctetStream),
     duration |-> NoNumber, has_hash |-> TRUE, content_hash |-> None]

\* ------------------------------------------------------------ the inputs
Headers(len, type, sha256, goog, etag) ==
    [content_length |-> len, content_type |-> type, sha256 |-> sha256,
     goog |-> goog, etag |-> etag]

AudioType == <<"a", "u", "d", "i", "o">>

\* the header sets a HEAD request may answer with
HeaderSets ==
    {Headers(Some(<<"9">>), Some(AudioType), Some(<<"S">>), None, Some(<<"\"", "e", "\"">>)),
     Headers(Some(<<"9">>), Some(AudioType), None,
             Some(<<"c", "=", "A", ",", "m", "d", "5", "=", "M", ",", "x">>),
             Some(<<"\"", "e", "\"">>)),
     Headers(None, Some(AudioType), Some(<<>>), Some(<<"m", "d", "5", "=">>),
             Some(<<" ", "\"", "e", " ", "f", "\"">>)),
     Headers(Some(<<"9">>), Some(AudioType), None, None, Some(<<"\"", "\"">>)),
     Headers(None, None, None, None, None)}

\* the asset URL of episode i, and the URL its HEAD request ends at
Digits == <<"1", "2", "3", "4", "5", "6", "7", "8", "9">>
DecimalDigit == <<"0">> \o Digits
AssetUrl(i) == <<"u", Digits[i]>>
RedirectedUrl(i) == <<"r", Digits[i]>>

\* the responses a HEAD request for the asset of episode i may end with: any
\* of the header sets from the asset URL itself, or the first after a redirect
Responses(i) ==
    {[url |-> AssetUrl(i), headers |-> h] : h \in HeaderSets}
    \cup {[url |-> RedirectedUrl(i),
            headers |-> Headers(Some(<<"9">>), Some(AudioType), Some(<<"S">>), None,
                                Some(<<"\"", "e", "\"">>))]}

\* the reports ffprobe may print: empty, without a duration line, or with the
\* durations (in milliseconds) of its streams
Reports ==
    {[empty |-> TRUE, s0 |-> NoNumber, s1 |-> NoNumber],
     [empty |-> FALSE, s0 |-> NoNumber, s1 |-> NoNumber],
     [empty |-> FALSE, s0 |-> Some(1500), s1 |-> Some(2900)]}
EmptyReport == [empty |-> TRUE, s0 |-> NoNumber, s1 |-> NoNumber]

\* the times episodes are published at: a naive timestamp before the first
\* reading of the clock, and an aware one ("...+01:00") that is at the first
\* reading once its offset is taken off
PubTimes ==
    {[local |-> 0, aware |-> FALSE, offset |-> 0],
     [local |-> 2, aware |-> TRUE, offset |-> 1]}

\* n episodes published at whens
EpisodesAt(n, whens) == [i \in 1..n |-> [BaseEpisode EXCEPT !.when = whens[i]]]

\* the configs main is run on: valid configs of up to MaxEpisodes episodes
\* with the use-hash toggle on and every combination of publication times,
\* the same without the toggle and with it off when all are published, one the
\* validator rejects and one it raises on
RunConfigs ==
    UNION {
      {[BaseConfig(n) EXCEPT !.metadata["use_asset_hash_as_guid"] = "true",
                             !.episodes = EpisodesAt(n, whens)]
        : whens \in [1..n -> PubTimes]}
      \cup {[BaseConfig(n) EXCEPT !.metadata["use_asset_hash_as_guid"] = toggle]
             : toggle \in {"absent", "false"}}
      : n \in 0..MaxEpisodes}
    \cup {[BaseConfig(1) EXCEPT !.metadata["email"] = "bad"],
          [BaseConfig(1) EXCEPT !.metadata_kind = "None"]}

\* ------------------------------------------------- the program constants
\* byte_limit = 4000 in format_description, in rss_generator.py and in the
\* package
byte_limit == 4000
pkg_byte_limit == 4000

\* @retry(tries=5, delay=2, backoff=2) on _make_http_request
RetryTries == 5
RetryDelay == 2
RetryBackoff == 2
\* _run_ffprobe_with_retry(url, max_retries=5, delay=2), delay *= 2
max_retries == 5
ffprobe_delay == 2
ffprobe_backoff == 2
\* podcast_rss_generator/generator.py:
\* @retry(exceptions=(RequestException, ErrorReturnCode), tries=5, delay=1,
\* backoff=2) on get_file_info
PkgRetryTries == 5
PkgRetryDelay == 1
PkgRetryBackoff == 2
\* the latest reading of the clock
MaxNow == 2

\* ------------------------------------------------------------ the state
VARIABLES
    pc,              \* where main is
    config,          \* the loaded config
    dry_run,         \* --dry-run
    skip_asset_verification,
    validation,      \* what validate_config returned
    exit_status,     \* "none" while running, then "0" or "1"
    exception,       \* the exception that ended the run, or "none"
    now,             \* the clock
    ep,              \* the episode of the loop of generate_rss (0: before it)
    use_hash_guid,   \* the toggle as generate_rss read it
    tries,           \* _tries of the retry decorator
    http_delay,      \* _delay of the retry decorator
    retries,         \* retries of _run_ffprobe_with_retry
    delay,           \* delay of _run_ffprobe_with_retry
    response,        \* the response of the HEAD request
    probe,           \* the ffprobe report
    file_info,       \* what get_file_info returned
    items,           \* the items added to the channel so far
    output,          \* the output file
    http_outcomes,   \* history: the HEAD attempts for this episode
    http_sleeps,     \* history: the waits between them
    probe_outcomes,  \* history: the ffprobe attempts for this episode
    probe_sleeps,    \* history: the waits between them
    probed_urls,     \* history: the URLs ffprobe was run on for this episode
    description,     \* a description as the config gives it
    formatted,       \* what format_description returned for it
    written,         \* the text node as tree.write serialized it
    channel,         \* the elements generate_rss made of the metadata
    previous         \* what an earlier call of generate_rss left, if there was one

vars == <<pc, config, dry_run, skip_asset_verification, validation, exit_status,
          exception, now, ep, use_hash_guid, tries, http_delay, retries, delay,
          response, probe, file_info, items, output, http_outcomes, http_sleeps,
          probe_outcomes, probe_sleeps, probed_urls, description, formatted, written,
          channel, previous>>

\* the variables of the description texts, and those of a run of main
text_vars == <<description, formatted, written>>
run_vars == <<config, dry_run, skip_asset_verification, validation, exit_status,
              exception, now, ep, use_hash_guid, tries, http_delay, retries, delay,
              response, probe, file_info, items, output, http_outcomes, http_sleeps,
              probe_outcomes, probe_sleeps, probed_urls, channel, previous>>

NoResponse == [url |-> <<>>, headers |-> Headers(None, None, None, None, None)]
NoFileInfo ==
    [content_length |-> None, content_type |-> None, duration |-> NoNumber,
     has_hash |-> FALSE, content_hash |-> None]
NotWritten == [state |-> "none", items |-> <<>>]
NoChannel == [raised |-> FALSE, elements |-> <<>>]
\* no earlier call of generate_rss
NoRun == [done |-> FALSE, config |-> <<>>, now |-> 0, channel |-> NoChannel,
          items |-> <<>>, output |-> NotWritten, exception |-> "none"]

InitRest ==
    /\ channel = NoChannel
    /\ previous = NoRun
    /\ validation = [raised |-> FALSE, ok |-> FALSE, errors |-> <<>>]
    /\ exit_status = "none"
    /\ exception = "none"
    /\ now = 1
    /\ ep = 0
    /\ use_hash_guid = "absent"
    /\ tries = 0
    /\ http_delay = 0
    /\ retries = 0
    /\ delay = 0
    /\ response = NoResponse
    /\ probe = EmptyReport
    /\ file_info = NoFileInfo
    /\ items = <<>>
    /\ output = NotWritten
    /\ http_outcomes = <<>>
    /\ http_sleeps = <<>>
    /\ probe_outcomes = <<>>
    /\ probe_sleeps = <<>>
    /\ probed_urls = <<>>

\* no description text is followed
NoTexts ==
    /\ description = <<>>
    /\ formatted = <<>>
    /\ written = <<>>

\* main has parsed its arguments and is about to read the config file
Init ==
    /\ pc = "read_config"
    /\ config \in RunConfigs
    /\ dry_run \in BOOLEAN
    /\ skip_asset_verification \in BOOLEAN
    /\ InitRest
    /\ NoTexts

\* validate_config is about to be called on a config: a valid config with n
\* episodes changed in at most MaxEdits places
InitValidate ==
    /\ pc = "validate"
    /\ \E n \in 0..MaxEpisodes :
          \E picks \in [1..MaxEdits -> NumberedEdits] :
             /\ IsChoice(picks, n)
             /\ config = ApplyEdits(BaseConfig(n), picks, 1)
    /\ dry_run = FALSE
    /\ skip_asset_verification = FALSE
    /\ InitRest
    /\ NoTexts

\* ---------------------------------------------------------------- main
\* lines 693-705: read_podcast_config, which may fail (no file, bad YAML)
ReadConfig ==
    /\ pc = "read_config"
    /\ \/ /\ pc' = "validate"
          /\ UNCHANGED exit_status
       \/ /\ pc' = "exit"
          /\ exit_status' = "1"
    /\ UNCHANGED <<text_vars, previous, channel, config, dry_run, skip_asset_verification, validation, exception, now,
                   ep, use_hash_guid, tries, http_delay, retries, delay, response, probe,
                   file_info, items, output, http_outcomes, http_sleeps, probe_outcomes,
                   probe_sleeps, probed_urls>>

\* a main that does not look at the errors validate_config returned
AfterValidation_unchecked(r, dry) ==
    IF r.raised THEN [pc |-> "crashed", exit_status |-> "1", exception |-> "TypeError"]
    ELSE IF dry THEN [pc |-> "exit", exit_status |-> "0", exception |-> "none"]
    ELSE [pc |-> "generate", exit_status |-> "none", exception |-> "none"]

\* where main goes with what validate_config did (lines 708-720): an uncaught
\* exception ends the interpreter with status 1
AfterValidation(r, dry) ==
    IF r.raised THEN [pc |-> "crashed", exit_status |-> "1", exception |-> "TypeError"]
    ELSE IF ~r.ok THEN [pc |-> "exit", exit_status |-> "1", exception |-> "none"]
    ELSE IF dry THEN [pc |-> "exit", exit_status |-> "0", exception |-> "none"]
    ELSE [pc |-> "generate", exit_status |-> "none", exception |-> "none"]

\* lines 707-720: validate the config, stop on errors and in dry-run mode
Validate ==
    /\ pc = "validate"
    /\ validation' = validate_config(config)
    /\ LET to == AfterValidation(validation', dry_run) IN
          /\ pc' = to.pc
          /\ exit_status' = to.exit_status
          /\ exception' = to.exception
    /\ UNCHANGED <<text_vars, previous, channel, config, dry_run, skip_asset_verification, now, ep, use_hash_guid,
                   tries, http_delay, retries, delay, response, probe, file_info, items,
                   output, http_outcomes, http_sleeps, probe_outcomes, probe_sleeps,
                   probed_urls>>

\* -------------------------------------------------------- generate_rss
\* a get_meta that looks under the legacy key first
get_meta_legacy_first(metadata, key, old_key, required, default) ==
    LET value == IF Get(metadata, old_key) # "None"
                 THEN [v |-> metadata[old_key], key |-> old_key]
                 ELSE [v |-> Get(metadata, key), key |-> key]
    IN  IF required /\ value.v = "None"
        THEN [raised |-> TRUE, v |-> "None", key |-> "none"]
        ELSE IF value.v = "None"
        THEN [raised |-> FALSE, v |-> default, key |-> "default"]
        ELSE [raised |-> FALSE, v |-> value.v, key |-> value.key]

\* lines 424-442: the value of the first of key and old_key that has one
\* which is not None, with the key it was found under; ValueError when a
\* required field has none, the default when an optional one has none
get_meta(metadata, key, old_key, required, default) ==
    LET value == IF Get(metadata, key) # "None"
                 THEN [v |-> metadata[key], key |-> key]
                 ELSE [v |-> Get(metadata, old_key), key |-> old_key]
    IN  IF required /\ value.v = "None"
        THEN [raised |-> TRUE, v |-> "None", key |-> "none"]
        ELSE IF value.v = "None"
        THEN [raised |-> FALSE, v |-> default, key |-> "default"]
        ELSE [raised |-> FALSE, v |-> value.v, key |-> value.key]

\* an element of the channel: its tag, its text and the key it came from
Element(tag, text, key) == [tag |-> tag, text |-> text, key |-> key]

\* a channel GUID computed from the link of the podcast
podcast_guid_of_link(metadata) ==
    LET guid_val == get_meta(metadata, "podcast_guid", "podcast_guid", FALSE, "None")
    IN  IF Truthy(guid_val.v) THEN Element("podcast:guid", guid_val.v, guid_val.key)
        ELSE Element("podcast:guid", Uuid5(metadata["link"]), "link")

\* lines 516-529: the channel GUID, the configured one unless it is falsy,
\* else the UUID of the feed URL
podcast_guid(metadata) ==
    LET guid_val == get_meta(metadata, "podcast_guid", "podcast_guid", FALSE, "None")
        feed_url_val == get_meta(metadata, "rss_feed_url", "rss_feed_url", TRUE, "None")
    IN  IF Truthy(guid_val.v) THEN Element("podcast:guid", guid_val.v, guid_val.key)
        ELSE Element("podcast:guid", Uuid5(feed_url_val.v), "rss_feed_url")

\* lines 504-513: "yes" if str(locked_val).lower() is "true" or "yes"
locked_text(locked_val) == IF locked_val \in {"yes", "true"} THEN "yes" ELSE "no"

\* lines 461-529: the elements made of the aliased and of the optional
\* fields, in their order ("owner" is the owner attribute of podcast:locked,
\* and the text of itunes:category is its text attribute); a ValueError of
\* get_meta ends generate_rss
Channel(metadata) ==
    LET feed_url_val == get_meta(metadata, "rss_feed_url", "rss_feed_url", TRUE, "None")
        explicit_val == get_meta(metadata, "explicit", "itunes_explicit", FALSE, "false")
        email_val == get_meta(metadata, "email", "itunes_email", TRUE, "None")
        author_val == get_meta(metadata, "author", "itunes_author", TRUE, "None")
        category_val == get_meta(metadata, "category", "itunes_category", FALSE, "None")
        copyright_val == Get(metadata, "copyright")
        locked_val == get_meta(metadata, "podcast_locked", "podcast_locked", FALSE, "no")
    IN  IF feed_url_val.raised \/ email_val.raised \/ author_val.raised
        THEN [raised |-> TRUE, elements |-> <<>>]
        ELSE [raised |-> FALSE,
              elements |->
                 <<Element("itunes:explicit",
                           IF Truthy(explicit_val.v) THEN "yes" ELSE "no",
                           explicit_val.key),
                   Element("itunes:email", email_val.v, email_val.key),
                   Element("itunes:author", author_val.v, author_val.key)>>
                 \o If(Truthy(category_val.v),
                       Element("itunes:category", category_val.v, category_val.key))
                 \o If(Truthy(copyright_val),
                       Element("copyright", copyright_val, "copyright"))
                 \o <<Element("podcast:locked", locked_text(locked_val.v), locked_val.key),
                      Element("owner", email_val.v, email_val.key),
                      podcast_guid(metadata)>>]

\* lines 395-532: the channel is built and the toggle read
Generate ==
    /\ pc = "generate"
    /\ channel' = Channel(config.metadata)
    /\ IF channel'.raised
       THEN /\ pc' = "crashed"
            /\ exit_status' = "1"
            /\ exception' = "ValueError"
            /\ UNCHANGED <<use_hash_guid, ep>>
       ELSE /\ use_hash_guid' = config.metadata["use_asset_hash_as_guid"]
            /\ ep' = 0
            /\ pc' = "loop"
            /\ UNCHANGED <<exit_status, exception>>
    /\ UNCHANGED <<text_vars, previous, config, dry_run, skip_asset_verification, validation,
                   now, tries, http_delay, retries, delay, response, probe,
                   file_info, items, output, http_outcomes, http_sleeps, probe_outcomes,
                   probe_sleeps, probed_urls>>

\* the metadata generate_rss may be called on: the aliased fields present,
\* null, empty or missing under either key
AliasedMetadata ==
    {[BaseMetadata EXCEPT !["explicit"] = e[1], !["itunes_explicit"] = e[2],
                          !["email"] = m[1], !["itunes_email"] = m[2],
                          !["author"] = a[1], !["itunes_author"] = a[2],
                          !["category"] = c[1], !["itunes_category"] = c[2]] :
        e \in {"absent", "None", "true", "false"} \X {"absent", "true", "false"},
        m \in {"absent", "None", "ok", "empty"} \X {"absent", "ok", "empty"},
        a \in {"absent", "None", "ok", "empty"} \X {"absent", "ok", "empty"},
        c \in {"absent", "None", "ok", "empty"} \X {"absent", "ok", "empty"}}

\* generate_rss is about to be called on a config
InitChannel ==
    /\ pc = "generate"
    /\ \E metadata \in AliasedMetadata :
          config = [BaseConfig(0) EXCEPT !.metadata = metadata]
    /\ dry_run = FALSE
    /\ skip_asset_verification = FALSE
    /\ InitRest
    /\ NoTexts

\* the channel section of generate_rss alone
ChannelSpec == InitChannel /\ [][Generate]_vars

\* lines 536-543: the instant of a parsed timestamp on the UTC clock; a naive
\* one gets tzinfo=timezone.utc, its reading unchanged
pub_date(when) == IF when.aware THEN when.local - when.offset ELSE when.local

\* an eligibility test that lets through an episode published at this instant
Eligible_at_or_before(episode, t) == pub_date(episode.when) <= t

\* line 546: pub_date < datetime.now(timezone.utc)
Eligible(episode, t) == pub_date(episode.when) < t

\* lines 534-562: the next episode; the clock is read, an episode that is not
\* yet due is skipped, and the resolver is entered or bypassed
NextEpisode ==
    /\ pc = "loop"
    /\ ep < Len(config.episodes)
    /\ ep' = ep + 1
    /\ \E t \in now..MaxNow :
          /\ now' = t
          /\ IF ~Eligible(config.episodes[ep'], t)
             THEN /\ pc' = "loop"
                  /\ UNCHANGED <<file_info, tries, http_delay>>
             ELSE IF skip_asset_verification
             THEN /\ pc' = "item"
                  /\ file_info' = PlaceholderFileInfo
                  /\ UNCHANGED <<tries, http_delay>>
             ELSE /\ pc' = "head"
                  /\ tries' = RetryTries
                  /\ http_delay' = RetryDelay
                  /\ UNCHANGED file_info
    /\ http_outcomes' = <<>>
    /\ http_sleeps' = <<>>
    /\ probe_outcomes' = <<>>
    /\ probe_sleeps' = <<>>
    /\ probed_urls' = <<>>
    /\ UNCHANGED <<text_vars, previous, channel, config, dry_run, skip_asset_verification, validation, exit_status,
                   exception, use_hash_guid, retries, delay, response, probe, items,
                   output>>

\* lines 46-49: one requests.head under the retry decorator succeeds
HeadOk ==
    /\ pc = "head"
    /\ response' \in Responses(ep)
    /\ http_outcomes' = Append(http_outcomes, "ok")
    /\ retries' = 0
    /\ delay' = ffprobe_delay
    /\ pc' = "ffprobe"
    /\ UNCHANGED <<text_vars, previous, channel, config, dry_run, skip_asset_verification, validation, exit_status,
                   exception, now, ep, use_hash_guid, tries, http_delay, probe, file_info,
                   items, output, http_sleeps, probe_outcomes, probe_sleeps, probed_urls>>

\* the tries left after a failed attempt
TriesAfterFailure(t) == t - 1

\* lines 46-49: one requests.head fails; the decorator raises after the last try
HeadFail ==
    /\ pc = "head"
    /\ tries' = TriesAfterFailure(tries)
    /\ http_outcomes' = Append(http_outcomes, "fail")
    /\ IF tries' = 0
       THEN /\ pc' = "crashed"
            /\ exception' = "RequestException"
            /\ exit_status' = "1"
       ELSE /\ pc' = "head_sleep"
            /\ UNCHANGED <<exception, exit_status>>
    /\ UNCHANGED <<text_vars, previous, channel, config, dry_run, skip_asset_verification, validation, now, ep,
                   use_hash_guid, http_delay, retries, delay, response, probe, file_info,
                   items, output, http_sleeps, probe_outcomes, probe_sleeps, probed_urls>>

\* the decorator's wait after the next one
NextHttpDelay(d) == d * RetryBackoff

\* the decorator sleeps _delay and multiplies it by backoff
HeadSleep ==
    /\ pc = "head_sleep"
    /\ http_sleeps' = Append(http_sleeps, http_delay)
    /\ http_delay' = NextHttpDelay(http_delay)
    /\ pc' = "head"
    /\ UNCHANGED <<text_vars, previous, channel, config, dry_run, skip_asset_verification, validation, exit_status,
                   exception, now, ep, use_hash_guid, tries, retries, delay, response,
                   probe, file_info, items, output, http_outcomes, probe_outcomes,
                   probe_sleeps, probed_urls>>

\* a get_file_info that runs ffprobe on the URL it was given
FfprobeOk_on_asset_url ==
    /\ pc = "ffprobe"
    /\ probe' \in Reports
    /\ probe_outcomes' = Append(probe_outcomes, "ok")
    /\ probed_urls' = Append(probed_urls, AssetUrl(ep))
    /\ file_info' = get_file_info(response, probe')
    /\ pc' = "item"
    /\ UNCHANGED <<text_vars, previous, channel, config, dry_run, skip_asset_verification, validation, exit_status,
                   exception, now, ep, use_hash_guid, tries, http_delay, retries, delay,
                   response, items, output, http_outcomes, http_sleeps, probe_sleeps>>

\* lines 57-67 and 94-146: one run of ffprobe on response.url prints its
\* report, and get_file_info returns what it makes of it
FfprobeOk ==
    /\ pc = "ffprobe"
    /\ probe' \in Reports
    /\ probe_outcomes' = Append(probe_outcomes, "ok")
    /\ probed_urls' = Append(probed_urls, response.url)
    /\ file_info' = get_file_info(response, probe')
    /\ pc' = "item"
    /\ UNCHANGED <<text_vars, previous, channel, config, dry_run, skip_asset_verification, validation, exit_status,
                   exception, now, ep, use_hash_guid, tries, http_delay, retries, delay,
                   response, items, output, http_outcomes, http_sleeps, probe_sleeps>>

\* where a failed ffprobe run leads: the loop returns "" after the last one
\* and get_file_info goes on with it, and the loop sleeps otherwise
AfterFfprobeFailure(n) == IF n >= max_retries THEN "item" ELSE "ffprobe_sleep"

\* lines 68-75 and 94-100: one run of ffprobe fails with ErrorReturnCode;
\* after the last one get_file_info returns what it has
FfprobeFail ==
    /\ pc = "ffprobe"
    /\ retries' = retries + 1
    /\ probe_outcomes' = Append(probe_outcomes, "fail")
    /\ probed_urls' = Append(probed_urls, response.url)
    /\ pc' = AfterFfprobeFailure(retries')
    /\ probe' = EmptyReport
    /\ file_info' = IF pc' = "item" THEN get_file_info(response, probe') ELSE file_info
    /\ UNCHANGED <<text_vars, previous, channel, config, dry_run, skip_asset_verification, validation, exit_status,
                   exception, now, ep, use_hash_guid, tries, http_delay, delay, response,
                   items, output, http_outcomes, http_sleeps, probe_sleeps>>

\* lines 76-80: time.sleep(delay); delay *= 2
FfprobeSleep ==
    /\ pc = "ffprobe_sleep"
    /\ probe_sleeps' = Append(probe_sleeps, delay)
    /\ delay' = delay * ffprobe_backoff
    /\ pc' = "ffprobe"
    /\ UNCHANGED <<text_vars, previous, channel, config, dry_run, skip_asset_verification, validation, exit_status,
                   exception, now, ep, use_hash_guid, tries, http_delay, retries, response,
                   probe, file_info, items, output, http_outcomes, http_sleeps,
                   probe_outcomes, probed_urls>>

\* a GUID that takes the content hash whatever the toggle says
guid_text_ignoring_toggle(toggle, info, asset_url) ==
    IF OptTruthy(info.content_hash) THEN info.content_hash.v ELSE asset_url

\* lines 571-579: the GUID of an item
guid_text(toggle, info, asset_url) ==
    IF Truthy(toggle) /\ OptTruthy(info.content_hash) THEN info.content_hash.v ELSE asset_url

\* str(v) of an optional string
PyStr(h) == IF h.present THEN h.v ELSE <<"N", "o", "n", "e">>

\* str(n) of a natural number
RECURSIVE IntStr(_)
IntStr(n) ==
    IF n < 10 THEN <<DecimalDigit[n + 1]>>
    ELSE IntStr(n \div 10) \o <<DecimalDigit[(n % 10) + 1]>>

\* lines 600-602: the itunes:duration element, made only for a duration
\* that is not None
duration_element(info) ==
    IF info.duration.present THEN Some(IntStr(info.duration.v)) ELSE None

\* lines 414-417: the explicit flag the items default to, which is read
\* under the legacy key alone: config["metadata"].get("itunes_explicit", False)
global_explicit(metadata) ==
    IF Truthy(Get(metadata, "itunes_explicit")) THEN "yes" ELSE "no"

\* lines 589-597: the itunes:explicit text of an item, from
\* episode.get("explicit", episode.get("itunes_explicit")) when that is not
\* None, else the default
episode_explicit(episode, metadata) ==
    LET episode_explicit_val ==
            IF episode.f["explicit"] # "absent" THEN episode.f["explicit"]
            ELSE Get(episode.f, "itunes_explicit")
    IN  IF episode_explicit_val # "None"
        THEN IF Truthy(episode_explicit_val) THEN "yes" ELSE "no"
        ELSE global_explicit(metadata)

\* lines 630-649: the podcast:transcript elements of an episode, one for each
\* entry (a mapping) of the list that has a url and a type, with the
\* attributes the entry has
transcript_attrs(episode) ==
    IF episode.f["transcripts"] = "list"
    THEN SelectSeq(episode.transcripts,
                   LAMBDA t : t.url # "absent" /\ t.type # "absent")
    ELSE <<>>

\* an item that carries the time it was built at
NewItem_stamped(i, toggle, info) ==
    [ep |-> i,
     guid |-> guid_text(toggle, info, AssetUrl(i)),
     url |-> AssetUrl(i),
     type |-> info.content_type,
     length |-> PyStr(info.content_length),
     explicit |-> episode_explicit(config.episodes[i], config.metadata),
     duration |-> duration_element(info),
     transcripts |-> transcript_attrs(config.episodes[i]),
     built |-> now]

\* lines 564-649: the item of episode i.  file_info.get(key, default) gives the
\* default only when the key is missing, and get_file_info always sets both keys.
NewItem(i, toggle, info) ==
    [ep |-> i,
     guid |-> guid_text(toggle, info, AssetUrl(i)),
     url |-> AssetUrl(i),
     type |-> info.content_type,
     length |-> PyStr(info.content_length),
     explicit |-> episode_explicit(config.episodes[i], config.metadata),
     duration |-> duration_element(info),
     transcripts |-> transcript_attrs(config.episodes[i])]

\* an Item that puts the newest item first
Item_newest_first ==
    /\ pc = "item"
    /\ items' = <<NewItem(ep, use_hash_guid, file_info)>> \o items
    /\ pc' = "loop"
    /\ tries' = 0
    /\ http_delay' = 0
    /\ retries' = 0
    /\ delay' = 0
    /\ response' = NoResponse
    /\ probe' = EmptyReport
    /\ file_info' = NoFileInfo
    /\ http_outcomes' = <<>>
    /\ http_sleeps' = <<>>
    /\ probe_outcomes' = <<>>
    /\ probe_sleeps' = <<>>
    /\ probed_urls' = <<>>
    /\ UNCHANGED <<text_vars, previous, channel, config, dry_run, skip_asset_verification, validation, exit_status,
                   exception, now, ep, use_hash_guid, output>>

\* lines 564-649: the item is added to the channel; what get_file_info and
\* the two loops held is gone once the episode is done
Item ==
    /\ pc = "item"
    /\ items' = Append(items, NewItem(ep, use_hash_guid, file_info))
    /\ pc' = "loop"
    /\ tries' = 0
    /\ http_delay' = 0
    /\ retries' = 0
    /\ delay' = 0
    /\ response' = NoResponse
    /\ probe' = EmptyReport
    /\ file_info' = NoFileInfo
    /\ http_outcomes' = <<>>
    /\ http_sleeps' = <<>>
    /\ probe_outcomes' = <<>>
    /\ probe_sleeps' = <<>>
    /\ probed_urls' = <<>>
    /\ UNCHANGED <<text_vars, previous, channel, config, dry_run, skip_asset_verification, validation, exit_status,
                   exception, now, ep, use_hash_guid, output>>

\* ElementTree serializes an attribute only if it is a string: the type of
\* the enclosure and the attributes a transcript element has
Serializable(item) ==
    /\ item.type.present
    /\ \A k \in 1..Len(item.transcripts) :
          \A a \in {"url", "type", "language", "rel"} :
             item.transcripts[k][a] = "absent" \/ IsStr(item.transcripts[k][a])

\* the items before the first one that cannot be serialized
RECURSIVE WrittenPrefix(_)
WrittenPrefix(its) ==
    IF its = <<>> \/ ~Serializable(Head(its)) THEN <<>>
    ELSE <<Head(its)>> \o WrittenPrefix(Tail(its))

\* a generate_rss that writes the document after each episode
Write_after_each_episode ==
    /\ pc = "loop"
    /\ output' = [state |-> "complete", items |-> items]
    /\ pc' = IF ep = Len(config.episodes) THEN "exit" ELSE "loop"
    /\ exit_status' = IF ep = Len(config.episodes) THEN "0" ELSE exit_status
    /\ UNCHANGED <<text_vars, previous, channel, config, dry_run, skip_asset_verification, validation, exception, now,
                   ep, use_hash_guid, tries, http_delay, retries, delay, response, probe,
                   file_info, items, http_outcomes, http_sleeps, probe_outcomes,
                   probe_sleeps, probed_urls>>

\* ElementTree skips a text that is falsy and serializes any other text, and
\* every attribute, only if it is a string
ElementSerializable(e) ==
    \/ IsStr(e.text)
    \/ e.tag \notin {"itunes:category", "owner"} /\ ~Truthy(e.text)

\* lines 651-652: tree.write opens the output file and serializes the tree
\* into it, the elements of the channel and then the items; a value that is
\* no string raises TypeError part way
Write ==
    /\ pc = "loop"
    /\ ep = Len(config.episodes)
    /\ IF /\ \A k \in 1..Len(channel.elements) : ElementSerializable(channel.elements[k])
          /\ \A k \in 1..Len(items) : Serializable(items[k])
       THEN /\ output' = [state |-> "complete", items |-> items]
            /\ pc' = "exit"
            /\ exit_status' = "0"
            /\ UNCHANGED exception
       ELSE /\ output' =
                 [state |-> "partial",
                  items |-> IF \A k \in 1..Len(channel.elements) :
                                  ElementSerializable(channel.elements[k])
                            THEN WrittenPrefix(items) ELSE <<>>]
            /\ pc' = "crashed"
            /\ exit_status' = "1"
            /\ exception' = "TypeError"
    /\ UNCHANGED <<text_vars, previous, channel, config, dry_run, skip_asset_verification, validation, now, ep,
                   use_hash_guid, tries, http_delay, retries, delay, response, probe,
                   file_info, items, http_outcomes, http_sleeps, probe_outcomes,
                   probe_sleeps, probed_urls>>

Next ==
    \/ ReadConfig
    \/ Validate
    \/ Generate
    \/ NextEpisode
    \/ HeadOk
    \/ HeadFail
    \/ HeadSleep
    \/ FfprobeOk
    \/ FfprobeFail
    \/ FfprobeSleep
    \/ Item
    \/ Write

Spec == Init /\ [][Next]_vars

\* validate_config alone, on the wider set of configs
ValidateSpec == InitValidate /\ [][Validate]_vars

\* -------------------------------------- generate_rss without the resolver
\* a transcript entry with a language and a relation
TranscriptWith(language, rel) ==
    [Transcript("dict", "ok", "ok") EXCEPT !.language = language, !.rel = rel]

\* the transcript lists of the episode: entries with and without url, type,
\* language and relation, and a language and a relation that are no strings
SkipTranscriptLists ==
    {<<Transcript("dict", "ok", "ok")>>,
     <<Transcript("dict", "absent", "ok")>>,
     <<TranscriptWith("ok", "absent"), Transcript("dict", "ok", "absent"),
       TranscriptWith("absent", "ok")>>,
     <<TranscriptWith("int", "absent")>>,
     <<TranscriptWith("ok", "true")>>}

\* The configs of one episode generate_rss is called on with the resolver
\* bypassed: the explicit flag under either key of the metadata and of the
\* episode; the channel GUID, the feed URL and the copyright notice, with the
\* episode published before or at the first reading of the clock; the email
\* and the author under either key; and the transcript lists.
SkipConfigs ==
    {[BaseConfig(1) EXCEPT !.metadata["explicit"] = m[1],
                           !.metadata["itunes_explicit"] = m[2],
                           !.episodes[1].f["explicit"] = e[1],
                           !.episodes[1].f["itunes_explicit"] = e[2]] :
        m \in {"absent", "true", "false"} \X {"absent", "true", "false"},
        e \in {"absent", "None", "true", "false"} \X {"absent", "true"}}
    \cup
    {[BaseConfig(1) EXCEPT !.metadata["podcast_guid"] = g,
                           !.metadata["rss_feed_url"] = u,
                           !.metadata["copyright"] = c,
                           !.episodes = EpisodesAt(1, <<w>>)] :
        g \in {"absent", "ok", "empty", "int"}, u \in {"ok", "bad"},
        c \in {"absent", "ok", "int"}, w \in PubTimes}
    \cup
    {[BaseConfig(1) EXCEPT !.metadata["email"] = m[1],
                           !.metadata["itunes_email"] = m[2],
                           !.metadata["author"] = a[1],
                           !.metadata["itunes_author"] = a[2]] :
        m \in {"ok", "empty", "zero"} \X {"absent", "ok"},
        a \in {"ok", "empty"} \X {"absent", "ok"}}
    \cup
    {[BaseConfig(1) EXCEPT !.episodes[1].f["transcripts"] = "list",
                           !.episodes[1].transcripts = trs] :
        trs \in SkipTranscriptLists}

\* main is about to validate a config and to call generate_rss with
\* --skip-asset-verification, or generate_rss is about to be called on one
InitSkip ==
    /\ pc \in {"validate", "generate"}
    /\ config \in SkipConfigs
    /\ dry_run = FALSE
    /\ skip_asset_verification = TRUE
    /\ InitRest
    /\ NoTexts

\* generate_rss has ended and is called once more, at the same time or later:
\* on the same config or, when the channel was built, on the config with the
\* channel GUID of the document written into it (as the warning of lines
\* 525-528 recommends)
RunAgain ==
    /\ pc \in {"exit", "crashed"}
    /\ channel # NoChannel
    /\ ~previous.done
    /\ previous' = [done |-> TRUE, config |-> config, now |-> now, channel |-> channel,
                    items |-> items, output |-> output, exception |-> exception]
    /\ \/ config' = config
       \/ /\ ~channel.raised
          /\ config' = [config EXCEPT !.metadata["podcast_guid"] =
                                         channel.elements[Len(channel.elements)].text]
    /\ pc' = "generate"
    /\ channel' = NoChannel
    /\ items' = <<>>
    /\ output' = NotWritten
    /\ ep' = 0
    /\ use_hash_guid' = "absent"
    /\ exit_status' = "none"
    /\ exception' = "none"
    /\ UNCHANGED <<text_vars, dry_run, skip_asset_verification, validation, now, tries,
                   http_delay, retries, delay, response, probe, file_info,
                   http_outcomes, http_sleeps, probe_outcomes, probe_sleeps, probed_urls>>

SkipNext ==
    \/ Validate
    \/ Generate
    \/ NextEpisode
    \/ Item
    \/ Write
    \/ RunAgain

\* main with --skip-asset-verification, and generate_rss called twice
SkipSpec == InitSkip /\ [][SkipNext]_vars

\* ------------------------------ podcast_rss_generator/generator.py
\* The package's get_file_info is one function under one retry decorator: the
\* HEAD request and the ffprobe run are one attempt, and a failure of either
\* (RequestException, ErrorReturnCode) makes the decorator call it again.

\* lines 66-82: the duration line of stream 1, else that of stream 0
pkg_duration_of(report) ==
    IF report.s1.present THEN Some(ToWholeSeconds(report.s1.v))
    ELSE IF report.s0.present THEN Some(ToWholeSeconds(report.s0.v))
    ELSE NoNumber

\* lines 89-93: the dict returned
pkg_get_file_info(resp, report) ==
    [content_length |-> resp.headers.content_length,
     content_type |-> resp.headers.content_type,
     duration |-> pkg_duration_of(report), has_hash |-> FALSE, content_hash |-> None]

\* get_file_info(episode["asset_url"]) is about to be called (line 205)
InitPackage ==
    /\ pc = "pkg_head"
    /\ config = BaseConfig(1)
    /\ dry_run = FALSE
    /\ skip_asset_verification = FALSE
    /\ validation = [raised |-> FALSE, ok |-> FALSE, errors |-> <<>>]
    /\ exit_status = "none"
    /\ exception = "none"
    /\ now = 1
    /\ ep = 1
    /\ use_hash_guid = "absent"
    /\ tries = PkgRetryTries
    /\ http_delay = PkgRetryDelay
    /\ retries = 0
    /\ delay = 0
    /\ response = NoResponse
    /\ probe = EmptyReport
    /\ file_info = NoFileInfo
    /\ items = <<>>
    /\ output = NotWritten
    /\ http_outcomes = <<>>
    /\ http_sleeps = <<>>
    /\ probe_outcomes = <<>>
    /\ probe_sleeps = <<>>
    /\ probed_urls = <<>>
    /\ NoTexts
    /\ channel = NoChannel
    /\ previous = NoRun

\* line 51: requests.head returns
PkgHeadOk ==
    /\ pc = "pkg_head"
    /\ response' \in Responses(ep)
    /\ http_outcomes' = Append(http_outcomes, "ok")
    /\ pc' = "pkg_ffprobe"
    /\ UNCHANGED <<text_vars, previous, channel, config, dry_run, skip_asset_verification, validation, exit_status,
                   exception, now, ep, use_hash_guid, tries, http_delay, retries, delay,
                   probe, file_info, items, output, http_sleeps, probe_outcomes,
                   probe_sleeps, probed_urls>>

\* the decorator after an exception of the kind named: it raises it to the
\* caller when no try is left, and sleeps otherwise
PkgAfterFailure(t, kind) ==
    IF t = 0 THEN [pc |-> "pkg_raised", exception |-> kind]
    ELSE [pc |-> "pkg_sleep", exception |-> "none"]

\* line 51: requests.head raises RequestException
PkgHeadFail ==
    /\ pc = "pkg_head"
    /\ http_outcomes' = Append(http_outcomes, "fail")
    /\ tries' = tries - 1
    /\ LET to == PkgAfterFailure(tries', "RequestException") IN
          /\ pc' = to.pc
          /\ exception' = to.exception
    /\ UNCHANGED <<text_vars, previous, channel, config, dry_run, skip_asset_verification, validation, exit_status,
                   now, ep, use_hash_guid, http_delay, retries, delay, response, probe,
                   file_info, items, output, http_sleeps, probe_outcomes, probe_sleeps,
                   probed_urls>>

\* lines 56-93: ffprobe prints its report and get_file_info returns
PkgFfprobeOk ==
    /\ pc = "pkg_ffprobe"
    /\ probe' \in Reports
    /\ probe_outcomes' = Append(probe_outcomes, "ok")
    /\ probed_urls' = Append(probed_urls, response.url)
    /\ file_info' = pkg_get_file_info(response, probe')
    /\ pc' = "pkg_returned"
    /\ UNCHANGED <<text_vars, previous, channel, config, dry_run, skip_asset_verification, validation, exit_status,
                   exception, now, ep, use_hash_guid, tries, http_delay, retries, delay,
                   response, items, output, http_outcomes, http_sleeps, probe_sleeps>>

\* lines 85-87: ffprobe fails and the ErrorReturnCode is raised again
PkgFfprobeFail ==
    /\ pc = "pkg_ffprobe"
    /\ probe_outcomes' = Append(probe_outcomes, "fail")
    /\ probed_urls' = Append(probed_urls, response.url)
    /\ tries' = tries - 1
    /\ LET to == PkgAfterFailure(tries', "ErrorReturnCode") IN
          /\ pc' = to.pc
          /\ exception' = to.exception
    /\ UNCHANGED <<text_vars, previous, channel, config, dry_run, skip_asset_verification, validation, exit_status,
                   now, ep, use_hash_guid, http_delay, retries, delay, response, probe,
                   file_info, items, output, http_outcomes, http_sleeps, probe_sleeps>>

\* the decorator sleeps _delay, multiplies it by backoff and calls again
PkgSleep ==
    /\ pc = "pkg_sleep"
    /\ http_sleeps' = Append(http_sleeps, http_delay)
    /\ http_delay' = http_delay * PkgRetryBackoff
    /\ pc' = "pkg_head"
    /\ UNCHANGED <<text_vars, previous, channel, config, dry_run, skip_asset_verification, validation, exit_status,
                   exception, now, ep, use_hash_guid, tries, retries, delay, response,
                   probe, file_info, items, output, http_outcomes, probe_outcomes,
                   probe_sleeps, probed_urls>>

\* lines 227-229: the itunes:duration element, made for every item with
\* str(file_info["duration"]) as its text
pkg_duration_element(info) ==
    Some(IF info.duration.present THEN IntStr(info.duration.v)
         ELSE <<"N", "o", "n", "e">>)

\* lines 207-229: the item of episode i in the package
pkg_NewItem(i, info) ==
    [ep |-> i,
     guid |-> AssetUrl(i),
     url |-> AssetUrl(i),
     type |-> info.content_type,
     length |-> PyStr(info.content_length),
     duration |-> pkg_duration_element(info)]

\* lines 205-229: get_file_info has returned and the item is added
PkgItem ==
    /\ pc = "pkg_returned"
    /\ items' = Append(items, pkg_NewItem(ep, file_info))
    /\ pc' = "pkg_item"
    /\ UNCHANGED <<text_vars, previous, channel, config, dry_run, skip_asset_verification, validation, exit_status,
                   exception, now, ep, use_hash_guid, tries, http_delay, retries, delay,
                   response, probe, file_info, output, http_outcomes, http_sleeps,
                   probe_outcomes, probe_sleeps, probed_urls>>

PackageNext ==
    \/ PkgHeadOk
    \/ PkgHeadFail
    \/ PkgFfprobeOk
    \/ PkgFfprobeFail
    \/ PkgSleep
    \/ PkgItem

\* get_file_info of the package and the item made of what it returns
PackageSpec == InitPackage /\ [][PackageNext]_vars

\* ------------------------------------------------------ the descriptions
\* A text is a sequence of runs [c, n], n times the character c, with no empty
\* run and no two neighbouring runs of the same character: the 4000 of the
\* code is kept as it is and a text of thousands of characters stays small.
\* "E" stands for a character of two bytes in UTF-8 (an e with an accent),
\* every other character takes one byte.
Run(c, n) == [c |-> c, n |-> n]

RECURSIVE Norm(_)
Norm(t) ==
    IF t = <<>> THEN <<>>
    ELSE IF Head(t).n = 0 THEN Norm(Tail(t))
    ELSE LET rest == Norm(Tail(t)) IN
         IF rest # <<>> /\ Head(rest).c = Head(t).c
         THEN <<Run(Head(t).c, Head(t).n + Head(rest).n)>> \o Tail(rest)
         ELSE <<Head(t)>> \o rest

\* the text of a string literal, given by its characters
T(chars) == Norm([i \in DOMAIN chars |-> Run(chars[i], 1)])

\* len(text)
RECURSIVE PyLen(_)
PyLen(t) == IF t = <<>> THEN 0 ELSE Head(t).n + PyLen(Tail(t))

\* len(text.encode("utf-8"))
RECURSIVE Utf8Len(_)
Utf8Len(t) ==
    IF t = <<>> THEN 0
    ELSE Head(t).n * (IF Head(t).c = "E" THEN 2 ELSE 1) + Utf8Len(Tail(t))

\* text[:k]
RECURSIVE Take(_, _)
Take(t, k) ==
    IF t = <<>> \/ k <= 0 THEN <<>>
    ELSE IF Head(t).n >= k THEN <<Run(Head(t).c, k)>>
    ELSE <<Head(t)>> \o Take(Tail(t), k - Head(t).n)

\* the run that holds text.rfind(c), 0 if c is not in text
RFind(t, c) ==
    LET at == {i \in DOMAIN t : t[i].c = c} IN
    IF at = {} THEN 0 ELSE CHOOSE i \in at : \A j \in at : j <= i

\* text.replace(c, s) for a character c and the characters s
RECURSIVE Replace(_, _, _)
Replace(t, c, s) ==
    IF t = <<>> THEN <<>>
    ELSE Norm((IF Head(t).c = c
               THEN Flatten([i \in 1..Head(t).n |-> T(s)])
               ELSE <<Head(t)>>) \o Replace(Tail(t), c, s))

AmpEntity == <<"&", "a", "m", "p", ";">>
CdataOpen == T(<<"<", "!", "[", "C", "D", "A", "T", "A", "[">>)
CdataClose == T(<<"]", "]", ">">>)

\* markdown.markdown on one paragraph of text with inline HTML: the
\* paragraph is put in <p>...</p> and a bare ampersand is written &amp;
Markdown(d) ==
    Norm(T(<<"<", "p", ">">>) \o Replace(d, "&", AmpEntity)
         \o T(<<"<", "/", "p", ">">>))

\* html.unescape on a text whose only entity is &amp;, in one pass
RECURSIVE Unescape(_)
Unescape(t) ==
    IF t = <<>> THEN <<>>
    ELSE IF /\ Len(t) >= 5
            /\ t[1].c = "&"
            /\ t[2] = Run("a", 1)
            /\ t[3] = Run("m", 1)
            /\ t[4] = Run("p", 1)
            /\ t[5].c = ";"
    THEN <<t[1]>> \o If(t[5].n > 1, Run(";", t[5].n - 1))
         \o Unescape(SubSeq(t, 6, Len(t)))
    ELSE <<Head(t)>> \o Unescape(Tail(t))

\* rss_generator.py lines 149-170
format_description(d) ==
    LET unescaped_html == Norm(Unescape(Markdown(d)))
        wrapped_description == Norm(CdataOpen \o unescaped_html \o CdataClose)
        content_length == byte_limit - Utf8Len(Norm(CdataOpen \o CdataClose))
        truncated_content == Take(unescaped_html, content_length)
        lt == RFind(truncated_content, "<")
    IN  IF Utf8Len(wrapped_description) > byte_limit /\ content_length > 0
        THEN IF lt > 0 /\ \A i \in lt..Len(truncated_content) :
                              truncated_content[i].c # ">"
             THEN Norm(CdataOpen
                       \o Take(truncated_content,
                               PyLen(SubSeq(truncated_content, 1, lt)) - 1)
                       \o CdataClose)
             ELSE Norm(CdataOpen \o truncated_content \o CdataClose)
        ELSE wrapped_description

\* generator.py lines 96-115
pkg_format_description(d) ==
    LET wrapped_description == Norm(CdataOpen \o Markdown(d) \o CdataClose) IN
    IF Utf8Len(wrapped_description) > pkg_byte_limit
    THEN Take(wrapped_description, pkg_byte_limit)
    ELSE wrapped_description

\* the escaping of ElementTree as it comes: & < and > of a text node are
\* written as entities
escape_cdata_standard(text) ==
    Replace(Replace(Replace(text, "&", <<"&", "a", "m", "p", ";">>),
                    "<", <<"&", "l", "t", ";">>),
            ">", <<"&", "g", "t", ";">>)

\* rss_generator.py lines 21-31, put in the place of ET._escape_cdata
escape_cdata(text) == Replace(text, "&", AmpEntity)

\* the descriptions followed: short ones, and ones whose wrapped paragraph is
\* up to MaxOver bytes below or above the byte limit; plain text, text of
\* two-byte characters, text ending in an inline tag and text with an
\* ampersand
Descriptions ==
    LET fit == byte_limit - Utf8Len(Norm(CdataOpen \o Markdown(<<>>) \o CdataClose))
        sizes == (1..MaxOver) \cup {fit + k : k \in (0 - MaxOver)..MaxOver}
        halves == (1..MaxOver) \cup {(fit \div 2) + k : k \in (0 - MaxOver)..MaxOver}
        bold == T(<<"<", "b", ">", "a", "<", "/", "b", ">">>)
    IN  {<<Run("a", n)>> : n \in sizes}
        \cup {<<Run("E", n)>> : n \in halves}
        \cup {Norm(<<Run("a", n)>> \o bold) : n \in sizes}
        \cup {<<Run("a", 1), Run("&", 1), Run("a", n)>> : n \in sizes}

\* format_description is about to be called on a description
InitDescription ==
    /\ pc = "describe"
    /\ description \in Descriptions
    /\ formatted = <<>>
    /\ written = <<>>
    /\ config = BaseConfig(0)
    /\ dry_run = FALSE
    /\ skip_asset_verification = FALSE
    /\ InitRest

\* rss_generator.py lines 447-449: the description of the channel
FormatChannelDescription ==
    /\ pc = "describe"
    /\ formatted' = format_description(description)
    /\ pc' = "channel_description"
    /\ UNCHANGED <<description, written, run_vars>>

\* rss_generator.py lines 567-569: the description of an item
FormatItemDescription ==
    /\ pc = "describe"
    /\ formatted' = format_description(description)
    /\ pc' = "item_description"
    /\ UNCHANGED <<description, written, run_vars>>

\* generator.py lines 145-147: the description of the channel in the package
PkgFormatChannelDescription ==
    /\ pc = "describe"
    /\ formatted' = pkg_format_description(description)
    /\ pc' = "pkg_channel_description"
    /\ UNCHANGED <<description, written, run_vars>>

\* rss_generator.py lines 651-652: tree.write serializes the text node
WriteText ==
    /\ pc \in {"channel_description", "item_description"}
    /\ written' = escape_cdata(formatted)
    /\ pc' = "text_written"
    /\ UNCHANGED <<description, formatted, run_vars>>

DescriptionNext ==
    \/ FormatChannelDescription
    \/ FormatItemDescription
    \/ PkgFormatChannelDescription
    \/ WriteText

\* format_description and the serialization of its result, alone
DescriptionSpec == InitDescription /\ [][DescriptionNext]_vars

\* ------------------------------------------------------------ properties
Last(s) == s[Len(s)]
AllFail(s) == \A k \in DOMAIN s : s[k] = "fail"

\* validate_config has been called
Validated == pc \notin {"read_config", "validate"}

\* C1: validate_config never raises: whatever the config, it returns a pair
\* (ok, errors).
C1_NeverRaises == ~validation.raised

\* the violations of a config, each section looked at on its own
Violations(c) ==
    IF c.top # "dict" THEN {Err("Config must be a dictionary", 0, 0, "")}
    ELSE (IF c.metadata_kind = "absent"
          THEN {Err("Missing required 'metadata' section", 0, 0, "metadata")}
          ELSE IF c.metadata_kind = "dict" /\ ~MetadataRaises(c.metadata)
          THEN Range(MetadataErrors(c.metadata))
          ELSE {})
      \cup (IF c.episodes_kind = "absent"
            THEN {Err("Missing required 'episodes' section", 0, 0, "episodes")}
            ELSE IF c.episodes_kind # "list"
            THEN {Err("Episodes section must be a list", 0, 0, "episodes")}
            ELSE IF \E i \in DOMAIN c.episodes : EpisodeRaises(c.episodes[i])
            THEN {}
            ELSE Range(EpisodesErrors(c.episodes)))

\* C2: validate_config collects every violation: when it returns, the error
\* list has a message for each violation of the config, in whatever section.
C2_CollectsEveryViolation ==
    (Validated /\ ~validation.raised) => Violations(config) \subseteq Range(validation.errors)

\* a config that satisfies the documented rules
ValidMetadata(md) ==
    /\ \A k \in DOMAIN required_metadata_fields : md[required_metadata_fields[k]] = "ok"
    /\ \/ md["email"] = "ok"
       \/ md["email"] \in {"absent", "empty"} /\ md["itunes_email"] = "ok"
    /\ \/ md["author"] = "ok"
       \/ md["author"] \in {"absent", "empty"} /\ md["itunes_author"] = "ok"
    /\ md["category"] \in {"absent", "ok"}
    /\ md["itunes_category"] \in {"absent", "ok"}
    /\ md["image"] \in {"absent", "ok"}
    /\ \A k \in DOMAIN boolean_fields : md[boolean_fields[k]] \in {"absent", "true", "false"}
    /\ md["podcast_locked"] \in {"absent", "yes", "no", "true", "false"}

ValidEpisode(episode) ==
    /\ episode.kind = "dict"
    /\ \A k \in DOMAIN required_episode_fields : episode.f[required_episode_fields[k]] = "ok"
    /\ episode.f["link"] \in {"absent", "ok"}
    /\ episode.f["image"] \in {"absent", "ok"}
    /\ episode.f["episode"] \in {"absent", "int"}
    /\ episode.f["season"] \in {"absent", "int"}
    /\ episode.f["episode_type"] \in {"absent"} \cup valid_episode_types
    /\ episode.f["explicit"] \in {"absent", "true", "false"}
    /\ episode.f["itunes_explicit"] \in {"absent", "true", "false"}
    /\ \/ episode.f["transcripts"] = "absent"
       \/ /\ episode.f["transcripts"] = "list"
          /\ \A j \in DOMAIN episode.transcripts :
                /\ episode.transcripts[j].kind = "dict"
                /\ episode.transcripts[j].url = "ok"
                /\ episode.transcripts[j].type = "ok"

ValidConfig(c) ==
    /\ c.top = "dict"
    /\ c.metadata_kind = "dict"
    /\ c.episodes_kind = "list"
    /\ ValidMetadata(c.metadata)
    /\ Len(c.episodes) >= 1
    /\ \A i \in DOMAIN c.episodes : ValidEpisode(c.episodes[i])

\* C3: validate_config returns ok = true exactly when its error list is empty,
\* and a config that satisfies the documented rules (email and author under
\* the modern or the legacy key) gets ok = true and no errors.
C3_OkExactlyWhenNoErrors ==
    Validated =>
       /\ ~validation.raised => (validation.ok <=> validation.errors = <<>>)
       /\ ValidConfig(config) =>
             ~validation.raised /\ validation.ok /\ validation.errors = <<>>

\* a valid config with its email under the legacy key only has been accepted
C3_LegacyConfigAccepted ==
    /\ pc = "generate"
    /\ ValidConfig(config)
    /\ config.metadata["email"] = "absent"
    /\ config.metadata["itunes_email"] = "ok"
    /\ validation.ok
    /\ validation.errors = <<>>

\* generate_rss has been called
GeneratePcs == {"generate", "loop", "head", "head_sleep", "ffprobe", "ffprobe_sleep", "item"}
Generating ==
    pc \in GeneratePcs \/ items # <<>> \/ output # NotWritten \/ exception = "RequestException"

\* C4: main calls generate_rss only after validate_config returned ok = true
\* on the loaded config; when validation fails the run ends with status 1 and
\* nothing is written; in dry-run mode generate_rss is never called.
C4_GenerateOnlyAfterValidation ==
    /\ Generating => validation.ok /\ ~validation.raised /\ ~dry_run
    /\ pc = "generate" => validation = validate_config(config)
    /\ (Validated /\ ~validation.ok) =>
          pc \in {"exit", "crashed"} /\ exit_status = "1" /\ output = NotWritten

\* validation has failed with errors and the run has ended with status 1
C4_RejectedConfigExits ==
    /\ pc = "exit"
    /\ exit_status = "1"
    /\ ~validation.ok
    /\ validation.errors # <<>>
    /\ items = <<>>
    /\ output = NotWritten

\* C5: the HEAD request is attempted at most 5 times for one asset, a new
\* attempt follows only a failed one, the waits double from a fixed base
\* delay, a success ends the loop with its response, and the failure is raised
\* after the 5th failed attempt and not before.
C5_TransportRetryPolicy ==
    /\ Len(http_outcomes) <= 5
    /\ \A k \in 1..(Len(http_outcomes) - 1) : http_outcomes[k] = "fail"
    /\ http_sleeps # <<>> => http_sleeps[1] \in {RetryDelay, PkgRetryDelay}
    /\ \A k \in 1..(Len(http_sleeps) - 1) : http_sleeps[k + 1] = 2 * http_sleeps[k]
    /\ exception = "RequestException" <=> (Len(http_outcomes) = 5 /\ AllFail(http_outcomes))
    /\ (http_outcomes # <<>> /\ Last(http_outcomes) = "ok") =>
          response \in Responses(ep) /\ pc \notin {"head", "head_sleep", "pkg_head"}

\* the resolver has ended: get_file_info returned or raised
ResolverEnded == pc \in {"item", "crashed", "pkg_returned", "pkg_raised"}

\* C6: when the HEAD request succeeded and every run of ffprobe failed,
\* get_file_info still returns, with no duration, and the item it leads to can
\* be written to the feed.
C6_MediaProbeFailureIsNotFatal ==
    (ResolverEnded /\ probe_outcomes # <<>> /\ AllFail(probe_outcomes)) =>
       /\ pc \in {"item", "pkg_returned"}
       /\ exception = "none"
       /\ ~file_info.duration.present
       /\ Serializable(NewItem(ep, use_hash_guid, file_info))

\* C7: the two retry loops are independent: once ffprobe has been run no HEAD
\* request is made again for the asset, ffprobe is run at most 5 times
\* however many HEAD attempts there were, and its waits double from the same
\* base delay.
C7_IndependentRetryLoops ==
    /\ probe_outcomes # <<>> =>
          /\ pc \notin {"head", "head_sleep", "pkg_head", "pkg_sleep"}
          /\ Last(http_outcomes) = "ok"
          /\ \A k \in 1..(Len(http_outcomes) - 1) : http_outcomes[k] = "fail"
    /\ Len(probe_outcomes) <= 5
    /\ \A k \in 1..(Len(probe_outcomes) - 1) : probe_outcomes[k] = "fail"
    /\ probe_sleeps # <<>> => probe_sleeps[1] = RetryDelay
    /\ \A k \in 1..(Len(probe_sleeps) - 1) : probe_sleeps[k + 1] = 2 * probe_sleeps[k]
    /\ (pc = "item" /\ probe_outcomes # <<>> /\ AllFail(probe_outcomes)) =>
          Len(probe_outcomes) = 5

\* C8: when the HEAD request of an eligible episode fails on all its attempts
\* generate_rss ends with the error and nothing is written, whatever items
\* were built before; the document is written only once every episode has
\* been processed.
C8_NoOutputOnTransportFailure ==
    /\ (Len(http_outcomes) = 5 /\ AllFail(http_outcomes)) => exception = "RequestException"
    /\ exception = "RequestException" =>
          pc = "crashed" /\ exit_status = "1" /\ output = NotWritten
    /\ output # NotWritten => pc \in {"exit", "crashed"} /\ ep = Len(config.episodes)

\* the HEAD requests of the second episode all failed after the item of the
\* first was built, and nothing is written
C8_SecondEpisodeFails ==
    /\ exception = "RequestException"
    /\ ep = 2
    /\ Len(items) = 1
    /\ Len(http_outcomes) = 5
    /\ output = NotWritten

\* C9: the identity hint get_file_info returns is the one the priority order
\* gives for the response headers: sha256 from the checksum header, else md5
\* from the composite hash header, else the stripped entity tag, else none.
C9_HintFollowsHeaderPriority ==
    (pc = "item" /\ ~skip_asset_verification) =>
       file_info.content_hash = content_hash(response.headers)

\* the same, for the calls in which ffprobe printed a report
HintFollowsHeaderPriorityAfterReport ==
    (pc = "item" /\ ~skip_asset_verification /\ ~probe.empty) =>
       file_info.content_hash = content_hash(response.headers)

\* C10: the GUID of every item added is the identity hint when the toggle of
\* the config is on and file_info carries a hint, and the asset URL of the
\* episode in every other case.
C10_GuidOfEveryItem ==
    [][pc = "item" =>
          /\ Len(items') = Len(items) + 1
          /\ Last(items').guid =
                IF Truthy(config.metadata["use_asset_hash_as_guid"])
                   /\ file_info.content_hash.present
                THEN file_info.content_hash.v
                ELSE AssetUrl(ep)]_vars

\* an item has the sha256 hint as its GUID
C10_HashGuidItem ==
    /\ items # <<>>
    /\ Truthy(config.metadata["use_asset_hash_as_guid"])
    /\ Last(items).guid = Sha256Prefix \o <<"S">>
    /\ Last(items).guid # Last(items).url

\* ---------------------------------------------------------------- C11
ResolverPcs == {"head", "head_sleep", "ffprobe", "ffprobe_sleep"}

\* C11: with --skip-asset-verification no HEAD request and no ffprobe run is
\* made for any episode, and every item carries the placeholders: enclosure
\* type application/octet-stream, length "0", no duration element, and the
\* asset URL as GUID even when use_asset_hash_as_guid is on
C11_SkipUsesPlaceholders ==
    skip_asset_verification =>
        /\ pc \notin ResolverPcs
        /\ http_outcomes = <<>>
        /\ probe_outcomes = <<>>
        /\ probed_urls = <<>>
        /\ \A k \in 1..Len(items) :
              /\ items[k].type = Some(OctetStream)
              /\ items[k].length = <<"0">>
              /\ ~items[k].duration.present
              /\ items[k].guid = AssetUrl(items[k].ep)
              /\ items[k].url = AssetUrl(items[k].ep)

\* a feed of placeholder items written with the toggle on
C11_SkippedFeedWritten ==
    /\ skip_asset_verification
    /\ Truthy(config.metadata["use_asset_hash_as_guid"])
    /\ output.state = "complete"
    /\ Len(output.items) >= 1

\* ---------------------------------------------------------------- C12
\* the instant a publication timestamp denotes on the UTC clock
UtcInstant(when) == when.local - (IF when.aware THEN when.offset ELSE 0)

HasItem(e) == \E k \in 1..Len(items) : items[k].ep = e

\* C12: an episode gets an item exactly when its publication timestamp, a
\* naive one read as UTC, is strictly before the clock reading taken for it;
\* an episode that is not due makes no resolver call; and the feed is written
\* even when it has no item
C12_ItemIffPublishedBeforeNow ==
    /\ (pc = "loop" /\ ep >= 1) =>
          (HasItem(ep) <=> UtcInstant(config.episodes[ep].when) < now)
    /\ pc \in ResolverPcs \cup {"item"} =>
          UtcInstant(config.episodes[ep].when) < now
    /\ (pc = "exit" /\ exit_status = "0" /\ ~dry_run) =>
          output = [state |-> "complete", items |-> items]

\* a feed without items written for an episode with an aware timestamp that
\* is not yet due
C12_EmptyFeedWritten ==
    /\ output = [state |-> "complete", items |-> <<>>]
    /\ Len(config.episodes) >= 1
    /\ config.episodes[1].when.aware
    /\ UtcInstant(config.episodes[1].when) = now

\* ---------------------------------------------------------------- C13
\* episode e is being resolved or turned into an item
InFlight(e) == e = ep /\ pc \in ResolverPcs \cup {"item", "crashed"}

\* C13: the items are in the order of the episodes of the config, one per
\* episode at most, each for an episode that was due, with no episode passed
\* over that was due at the first reading of the clock (1); the written
\* document holds exactly these items
C13_ItemsInEpisodeOrder ==
    /\ \A j, k \in 1..Len(items) : j < k => items[j].ep < items[k].ep
    /\ \A k \in 1..Len(items) :
          /\ items[k].ep \in 1..ep
          /\ UtcInstant(config.episodes[items[k].ep].when) < now
    /\ \A e \in 1..ep :
          UtcInstant(config.episodes[e].when) < 1 =>
              HasItem(e) \/ InFlight(e)
    /\ output.state = "complete" =>
          /\ output.items = items
          /\ ep = Len(config.episodes)

\* a feed of two items written for a config of two episodes
C13_TwoItemsWritten ==
    /\ output.state = "complete"
    /\ Len(output.items) = 2
    /\ output.items[1].ep = 1
    /\ output.items[2].ep = 2

\* ---------------------------------------------------------------- C14
\* C14: an item has a duration element exactly when the file info it is made
\* of has a measured duration, and the element then holds that number; with
\* no duration there is no element, whatever its text
C14_DurationElementIffMeasured ==
    [][Len(items') = Len(items) + 1 =>
          /\ Last(items').duration.present <=> file_info.duration.present
          /\ file_info.duration.present =>
                Last(items').duration.v = IntStr(file_info.duration.v)]_vars

\* ---------------------------------------------------------------- C15
\* the whole seconds of the duration line the claim names
PreferredDuration(report) ==
    IF report.s1.present THEN Some(report.s1.v \div 1000)
    ELSE IF report.s0.present THEN Some(report.s0.v \div 1000)
    ELSE NoNumber

\* C15: the duration get_file_info returns is that of the duration line of
\* stream 1 if the report has one, else that of stream 0, else absent, in
\* whole seconds
C15_SecondStreamPreferred ==
    (pc = "item" /\ ~skip_asset_verification) =>
        file_info.duration = PreferredDuration(probe)

\* ------------------------------------------------------- C16, C17, C18
\* text[k:]
RECURSIVE Drop(_, _)
Drop(t, k) ==
    IF t = <<>> THEN <<>>
    ELSE IF k <= 0 THEN t
    ELSE IF Head(t).n > k THEN <<Run(Head(t).c, Head(t).n - k)>> \o Tail(t)
    ELSE Drop(Tail(t), k - Head(t).n)

StartsWith(t, s) == Take(t, PyLen(s)) = s
EndsWith(t, s) == PyLen(t) >= PyLen(s) /\ Drop(t, PyLen(t) - PyLen(s)) = s

\* the number of times character c is in text t
RECURSIVE Count(_, _)
Count(t, c) ==
    IF t = <<>> THEN 0
    ELSE (IF Head(t).c = c THEN Head(t).n ELSE 0) + Count(Tail(t), c)

\* the rendered paragraph in its CDATA wrapper, in full: as rss_generator.py
\* renders it (entities unescaped) and as the package does
Rendered(d) == Norm(CdataOpen \o Norm(Unescape(Markdown(d))) \o CdataClose)
PkgRendered(d) == Norm(CdataOpen \o Markdown(d) \o CdataClose)

\* C16: the wrapped description format_description returns for the channel
\* has at most 4000 bytes in UTF-8, begins with the CDATA opener and ends
\* with the CDATA terminator
C16_WrappedWithinByteLimit ==
    pc \in {"channel_description", "pkg_channel_description"} =>
        /\ Utf8Len(formatted) <= 4000
        /\ StartsWith(formatted, CdataOpen)
        /\ EndsWith(formatted, CdataClose)

\* what is between the CDATA opener and the terminator, if that is there
Inner(f) ==
    LET rest == Drop(f, PyLen(CdataOpen)) IN
    IF EndsWith(rest, CdataClose)
    THEN Take(rest, PyLen(rest) - PyLen(CdataClose))
    ELSE rest

\* the wrapped paragraph was over the byte limit
OverLimit ==
    \/ /\ pc \in {"channel_description", "item_description"}
       /\ Utf8Len(Rendered(description)) > 4000
    \/ /\ pc = "pkg_channel_description"
       /\ Utf8Len(PkgRendered(description)) > 4000

\* C17: when format_description truncates, the content it returns does not
\* end inside a tag: its last "<" has a ">" after it
C17_TruncationIsTagSafe ==
    OverLimit =>
        LET content == Inner(formatted)
            lt == RFind(content, "<")
        IN  lt > 0 => \E i \in lt..Len(content) : content[i].c = ">"

\* C18: the description of an item is never truncated: it is the rendered
\* paragraph in its wrapper, in full
C18_ItemDescriptionInFull ==
    pc = "item_description" => formatted = Rendered(description)

\* ---------------------------------------------------------------- C19
\* C19: in a serialized text node every ampersand is written &amp; and every
\* "<" and ">" as it is: the characters are those of the text with "amp;"
\* after each ampersand, reading the entities back gives the text, and the
\* CDATA markers are in their places
C19_OnlyAmpersandsEscaped ==
    pc = "text_written" =>
        /\ Count(written, "<") = Count(formatted, "<")
        /\ Count(written, ">") = Count(formatted, ">")
        /\ Count(written, "&") = Count(formatted, "&")
        /\ Count(written, ";") = Count(formatted, ";") + Count(formatted, "&")
        /\ PyLen(written) = PyLen(formatted) + 4 * Count(formatted, "&")
        /\ Norm(Unescape(written)) = formatted
        /\ StartsWith(written, CdataOpen)
        /\ EndsWith(written, CdataClose)

\* a description with an ampersand and tags has been serialized
C19_AmpersandAndTagsWritten ==
    /\ pc = "text_written"
    /\ Count(formatted, "&") = 1
    /\ Count(formatted, "<") >= 3
    /\ written # formatted

\* ---------------------------------------------------------------- C20
\* the metadata has a value under key k
Supplied(k) == config.metadata[k] \notin {"absent", "None"}

\* the key the value of an aliased field is to come from
Chosen(modern, legacy) == IF Supplied(modern) THEN modern ELSE legacy

\* the elements of the channel with a tag
Tagged(tag) == {i \in DOMAIN channel.elements : channel.elements[i].tag = tag}

\* the channel has one element with the tag, and it holds the value under
\* the modern key if there is one, else the value under the legacy key
OneFrom(tag, modern, legacy) ==
    /\ Cardinality(Tagged(tag)) = 1
    /\ \A i \in Tagged(tag) :
          /\ channel.elements[i].key = Chosen(modern, legacy)
          /\ channel.elements[i].text = config.metadata[Chosen(modern, legacy)]

\* C20: of an aliased channel field the value under the modern key is used
\* if there is one, else the value under the legacy key; with neither, a
\* required field (email, author) makes generate_rss raise ValueError and an
\* optional one takes its default (explicit: "no", category: no element); no
\* field appears twice
C20_ModernKeyThenLegacy ==
    pc \in {"loop", "crashed"} =>
        /\ channel.raised <=>
              \/ ~Supplied("email") /\ ~Supplied("itunes_email")
              \/ ~Supplied("author") /\ ~Supplied("itunes_author")
        /\ channel.raised =>
              /\ pc = "crashed"
              /\ exception = "ValueError"
              /\ channel.elements = <<>>
        /\ ~channel.raised =>
              /\ pc = "loop"
              /\ OneFrom("itunes:email", "email", "itunes_email")
              /\ OneFrom("itunes:author", "author", "itunes_author")
              /\ Cardinality(Tagged("itunes:explicit")) = 1
              /\ \A i \in Tagged("itunes:explicit") :
                    IF Supplied("explicit") \/ Supplied("itunes_explicit")
                    THEN /\ channel.elements[i].key = Chosen("explicit", "itunes_explicit")
                         /\ channel.elements[i].text = "yes" <=>
                               config.metadata[Chosen("explicit", "itunes_explicit")] = "true"
                         /\ channel.elements[i].text \in {"yes", "no"}
                    ELSE channel.elements[i].text = "no"
              /\ IF config.metadata[Chosen("category", "itunes_category")] = "ok"
                 THEN OneFrom("itunes:category", "category", "itunes_category")
                 ELSE Tagged("itunes:category") = {}

\* a channel made of a legacy email, a modern author beside a legacy one,
\* and no explicit flag under either key
C20_LegacyEmailModernAuthor ==
    /\ pc = "loop"
    /\ ~Supplied("email") /\ Supplied("itunes_email")
    /\ Supplied("author") /\ Supplied("itunes_author")
    /\ ~Supplied("explicit") /\ ~Supplied("itunes_explicit")
    /\ Tagged("itunes:category") = {}

\* ---------------------------------------------------------------- C21
\* the episode's own flag: the value under explicit if the key is there, else
\* the one under itunes_explicit
Override(i) ==
    IF config.episodes[i].f["explicit"] # "absent" THEN config.episodes[i].f["explicit"]
    ELSE Get(config.episodes[i].f, "itunes_explicit")

\* C21: the explicit flag of an item is the episode's own flag when the
\* episode has one, and otherwise the text of the channel's itunes:explicit
\* element, whichever key the channel flag was given under
C21_ItemExplicitIsOverrideElseChannel ==
    \A k \in DOMAIN items :
        IF Override(items[k].ep) # "None"
        THEN items[k].explicit = "yes" <=> Override(items[k].ep) = "true"
        ELSE \A i \in Tagged("itunes:explicit") :
                items[k].explicit = channel.elements[i].text

\* ---------------------------------------------------------------- C22
\* C22: the enclosure of every item has a type and a length that are real
\* texts, the type being application/octet-stream when the response had no
\* content-type header and the length 0 when it had no content-length
\* header; and tree.write never fails part way
C22_EnclosureAlwaysUsable ==
    /\ \A k \in DOMAIN items :
          /\ items[k].type.present
          /\ items[k].length # PyStr(None)
    /\ (pc = "item" /\ ~skip_asset_verification) =>
          /\ ~response.headers.content_type.present =>
                file_info.content_type = Some(OctetStream)
          /\ ~response.headers.content_length.present =>
                PyStr(file_info.content_length) = <<"0">>
    /\ output.state # "partial"

\* ---------------------------------------------------------------- C23
\* the texts of the podcast:guid elements of a channel
Guids(ch) == {ch.elements[i].text : i \in {j \in DOMAIN ch.elements :
                                                ch.elements[j].tag = "podcast:guid"}}

\* generate_rss has built a channel
Built(ch) == ch # NoChannel /\ ~ch.raised

\* C23: the channel has one GUID: the configured one when the config gives
\* one (a value that is not empty), else the UUID of the feed URL and of
\* nothing else; a second run on the same config, or on the config with the
\* emitted GUID written into it, emits the GUID of the first
C23_GuidConfiguredElseOfFeedUrl ==
    Built(channel) =>
        /\ Guids(channel) =
              {IF Truthy(Get(config.metadata, "podcast_guid"))
               THEN config.metadata["podcast_guid"]
               ELSE Uuid5(config.metadata["rss_feed_url"])}
        /\ (previous.done /\ Built(previous.channel)) =>
              Guids(channel) = Guids(previous.channel)

\* a second run on a config that holds the GUID the first run generated from
\* a feed URL that differs from the link
C23_GeneratedGuidWrittenBack ==
    /\ previous.done
    /\ Built(previous.channel)
    /\ Built(channel)
    /\ previous.config.metadata["podcast_guid"] = "absent"
    /\ config.metadata["podcast_guid"] = Uuid5(config.metadata["rss_feed_url"])
    /\ config.metadata["rss_feed_url"] # config.metadata["link"]

\* ---------------------------------------------------------------- C24
\* the entries of the transcript list of episode i that have a url and a type
Complete(i) ==
    SelectSeq(config.episodes[i].transcripts,
              LAMBDA t : t.url # "absent" /\ t.type # "absent")

\* the only fault validate_config found is a transcript entry without its
\* url or its type
OnlyIncompleteTranscripts ==
    /\ ~validation.raised
    /\ validation.errors # <<>>
    /\ \A k \in DOMAIN validation.errors :
          validation.errors[k].msg = "Transcript missing required field"

\* C24: a transcript entry without its url or its type is dropped and the
\* others are emitted in input order, each with the language and relation it
\* was given and no other; and main does not stop the run when such entries
\* are the only fault of the config
C24_IncompleteTranscriptIsNotFatal ==
    /\ \A k \in DOMAIN items :
          config.episodes[items[k].ep].f["transcripts"] = "list" =>
              items[k].transcripts = Complete(items[k].ep)
    /\ OnlyIncompleteTranscripts => ~(pc = "exit" /\ exit_status = "1")

\* ---------------------------------------------------------------- C25
\* validate_config reported the category
CategoryReported ==
    \E k \in DOMAIN validation.errors : validation.errors[k].field = "category"

\* C25: once validate_config has checked the metadata, it has reported the
\* category if the config gives it, under either key, as an empty or a
\* whitespace-only string, and has not reported it if the config gives none
C25_EmptyCategoryReported ==
    (/\ pc # "validate"
     /\ ~validation.raised
     /\ config.top = "dict"
     /\ config.metadata_kind = "dict") =>
        /\ (\E key \in {"category", "itunes_category"} :
                config.metadata[key] \in {"empty", "blank"}) => CategoryReported
        /\ (\A key \in {"category", "itunes_category"} :
                config.metadata[key] = "absent") => ~CategoryReported

\* ---------------------------------------------------------------- C26
\* generate_rss has ended
Ended == pc \in {"exit", "crashed"} /\ channel # NoChannel

\* the episodes that were eligible in a run that made the items its
EligibleIn(its) == {its[k].ep : k \in DOMAIN its}

C27_HeadThenProbeOfFinalUrlInOrder ==
    /\ \A k \in DOMAIN http_outcomes :
          k < Len(http_outcomes) => http_outcomes[k] = "fail"
    /\ (pc \in {"ffprobe", "ffprobe_sleep"} \/ probe_outcomes # <<>>) =>
          /\ http_outcomes # <<>>
          /\ Last(http_outcomes) = "ok"
          /\ response.url \in {AssetUrl(ep), RedirectedUrl(ep)}
    /\ \A k \in DOMAIN probed_urls : probed_urls[k] = response.url
    /\ Len(probed_urls) = Len(probe_outcomes)
    /\ pc \in ResolverPcs =>
          /\ ep \in DOMAIN config.episodes
          /\ Eligible(config.episodes[ep], now)
          /\ \A k \in DOMAIN items : items[k].ep < ep
    /\ pc \notin ResolverPcs \cup {"item", "crashed"} =>
          /\ http_outcomes = <<>>
          /\ probe_outcomes = <<>>

\* ffprobe has run on the redirected URL of the second episode after the
\* item of the first was added
C27_SecondEpisodeProbedAfterRedirect ==
    /\ pc = "item"
    /\ ep = 2
    /\ Len(items) = 1
    /\ items[1].ep = 1
    /\ probed_urls # <<>>
    /\ Last(probed_urls) = RedirectedUrl(2)

\* ---------------------------------------------------------------- C28
\* C28: the identity hint get_file_info returned for a response is the one
\* it returns for that response whatever ffprobe prints, nothing included,
\* and so is the GUID the item gets from it under the toggle of the run
C28_HintSameWhateverTheProbe ==
    (pc = "item" /\ ~skip_asset_verification) =>
        \A report \in Reports :
            /\ get_file_info(response, report).content_hash = file_info.content_hash
            /\ guid_text(use_hash_guid, get_file_info(response, report), AssetUrl(ep))
                  = guid_text(use_hash_guid, file_info, AssetUrl(ep))

\* ---------------------------------------------------------------- C29
\* C29: on a config validate_config accepted, generate_rss with the resolver
\* bypassed raises nothing and, once it has ended, has written the whole
\* document
C29_AcceptedConfigIsWritten ==
    (validation.ok /\ skip_asset_verification) =>
        /\ pc # "crashed"
        /\ exception = "none"
        /\ output.state # "partial"
        /\ pc = "exit" => output.state = "complete"

\* ---------------------------------------------------------------- C30
\* C30: an episode costs at most 5 HEAD attempts and at most 5 ffprobe runs;
\* each loop waits only between two attempts, never after its last; and
\* generate_rss, once called, ends with the whole document written or with
\* the RequestException of the HEAD request, and in no other way
C30_BoundedAttemptsAndTwoEndings ==
    /\ Len(http_outcomes) <= RetryTries
    /\ Len(probe_outcomes) <= max_retries
    /\ Len(http_sleeps) <= Len(http_outcomes)
    /\ Len(probe_sleeps) <= Len(probe_outcomes)
    /\ (http_outcomes # <<>> /\ pc \notin {"head", "head_sleep"}) =>
          Len(http_sleeps) = Len(http_outcomes) - 1
    /\ (probe_outcomes # <<>> /\ pc \notin {"ffprobe", "ffprobe_sleep"}) =>
          Len(probe_sleeps) = Len(probe_outcomes) - 1
    /\ (channel # NoChannel /\ pc = "crashed") =>
          /\ exception = "RequestException"
          /\ output = NotWritten
    /\ (channel # NoChannel /\ pc = "exit") => output.state = "complete"

====
